---- MODULE Spec2Model ----
(***************************************************************************)
(* AltDSS-Go: the binding layer between Go and the DSS engine.             *)
(*                                                                         *)
(* The binding (altdss/dsslib.go) is modelled operation by operation.  The *)
(* engine is the native library behind cgo: each entry point the binding   *)
(* calls is modelled at its call site as a nondeterministic environment    *)
(* (it may raise any fault, fill a scratch buffer with any data, return a  *)
(* null handle), scoped to the handle it is called with.                   *)
(***************************************************************************)
EXTENDS Integers, Sequences, FiniteSets, TLC

(***************************************************************************)
(* Bounds of the model.                                                    *)
(***************************************************************************)
\* error numbers the engine may raise are 1..MaxErr
MaxErr == 2
\* longest fill of the floating-point scratch buffer
MaxCount == 4
\* longest fill of the integer and byte scratch buffers
MaxCopyLen == 2
\* most strings in a string array returned by the engine
MaxStrs == 2
\* entities in the one enumerable category modelled (Capacitors)
NumEntities == 2
\* circuit names a Text command may create
NumCircuits == 1
\* facades (IDSS values) alive at once
MaxFacades == 2
\* iterations of the create/dispose loop of the ctx_disposal example
MaxIter == 3

(***************************************************************************)
(* Handles, values.                                                        *)
(***************************************************************************)
\* the nil unsafe.Pointer
Null == 0
\* the handle ctx_Get_Prime returns
Prime == 1
MaxHandles == MaxIter + MaxFacades
Handles == 1..MaxHandles
Facades == 1..MaxFacades
Faults == 0..MaxErr
\* floating-point values of the scratch buffer
Vals == {0, 1}
\* native blocks of one string array: the pointer array and its strings
ArrayBlock == 1
Blocks == 1..(MaxStrs + 1)
\* the NUL-terminated native strings the engine puts in a string array
NativeNames == {<<1, 0>>, <<2, 1, 0>>}
Kinds == {"PDouble", "PInteger", "PByte"}

RECURSIVE SeqsUpTo(_, _)
SeqsUpTo(S, n) ==
  IF n = 0 THEN {<<>>}
  ELSE LET shorter == SeqsUpTo(S, n - 1)
       IN  shorter \cup {Append(s, x) : s \in {t \in shorter : Len(t) = n - 1}, x \in S}

VARIABLES
  \* ---- engine side, per handle
  created,     \* handles ctx_New has returned
  released,    \* how many times each handle has been released
  errNum,      \* the error-number cell of each instance
  active,      \* the active Capacitor index of each instance (0: none)
  circuit,     \* the circuit of each instance (0: none)
  gr,          \* the GR scratch buffers of each instance: data and count cell
  heap,        \* native blocks of the last string array: -1 none, else times released
  \* ---- binding side, per facade
  facades,     \* the IDSS values that have been initialised
  ctx,         \* the DSSContextPtrs of each facade
  \* ---- caller side
  ret,         \* what the last operation returned
  held,        \* an array result the caller has kept
  \* ---- the ctx_disposal program
  pc, iter, ctxVar, errVar,
  \* ---- native strings
  cmem,        \* blocks the binding allocated for the last call: -1 none, else times freed
  busNames,    \* the bus names the engine holds for the active element of each instance
  \* ---- enumerable categories
  enabled,         \* the enabled Lines of each instance
  iterateDisabled, \* Settings.IterateDisabled of each instance
  visited, epc,    \* a caller enumerating the Lines: what it has visited, where it is
  \* ---- buses
  activeBus,       \* the active bus of each instance (0: none)
  \* ---- goroutines
  thr,             \* each goroutine: its facade, its position and its local variables
  \* ---- construction
  ini,             \* IDSS.Init in progress: its position, its locals, the facade it fills
  \* ---- process-wide engine state
  compatFlags,     \* the compatibility flags, by the cell the engine keeps them in
  \* ---- circuit elements
  cktElement       \* the active circuit element of each instance (0: none)

engineVars == <<created, released, errNum, active, circuit, gr, heap>>
bindingVars == <<facades, ctx>>
mainVars == <<pc, iter, ctxVar, errVar>>
strVars == <<cmem, busNames>>
enumVars == <<enabled, iterateDisabled>>
loopVars == <<visited, epc>>
busVars == <<activeBus>>
concVars == <<thr>>
initVars == <<ini>>
flagVars == <<compatFlags>>
cktVars == <<cktElement>>
extVars == <<cmem, busNames, enabled, iterateDisabled, visited, epc, activeBus, thr,
             ini, compatFlags, cktElement>>
vars == <<created, released, errNum, active, circuit, gr, heap, facades, ctx,
          ret, held, pc, iter, ctxVar, errVar, cmem, busNames, enabled,
          iterateDisabled, visited, epc, activeBus, thr, ini, compatFlags,
          cktElement>>

(***************************************************************************)
(* Error values of the binding.                                            *)
(***************************************************************************)
NoError == [kind |-> "nil", num |-> 0, desc |-> 0]
\* fmt.Errorf("(DSSError#%d) %s", number, description)
EngineError(n, d) == [kind |-> "DSSError#", num |-> n, desc |-> d]
\* errors.New("(DSSError) Got invalid data for a complex number.")
InvalidComplex == [kind |-> "invalid data for a complex number", num |-> 0, desc |-> 0]
\* errors.New("(DSSError) Could not create a new DSS Context")
AllocError == [kind |-> "could not create a new DSS Context", num |-> 0, desc |-> 0]

NoCtx == [ctxPtr |-> Null, errorNumberPtr |-> Null, grPtr |-> Null]
NoRet == [op |-> "none", f |-> 0, val |-> <<>>, err |-> NoError, raw |-> 0, cnt |-> 0,
          blk |-> {}, backing |-> "host"]
NoHeld == [kind |-> "none", backing |-> "host", ptr |-> Null, data |-> <<>>]
EmptyGR == [k \in Kinds |-> [cnt |-> 0, data |-> <<>>]]

(***************************************************************************)
(* The engine, as far as the binding relies on it.                         *)
(***************************************************************************)
\* the instances that exist: the prime one and those created, until released
Live == {h \in ({Prime} \cup created) : released[h] = 0}

\* any ctx_* call may raise a fault: the engine writes the error number
RaiseFault(en, h, e) == IF e = 0 THEN en ELSE [en EXCEPT ![h] = e]

\* ctx_Error_Get_Description: the description of the error the cell holds
Error_Get_Description(en, h) == 10 + en[h]

\* ctx_DSS_Start
DSS_Start(en, h, e) == RaiseFault(en, h, e)

(***************************************************************************)
(* The Error Channel.                                                      *)
(***************************************************************************)
\* the value DSSError returns, given the cells as the engine call left them
DSSErrorValue(c, en) ==
  IF en[c.errorNumberPtr] # 0
    THEN EngineError(en[c.errorNumberPtr], Error_Get_Description(en, c.ctxPtr))
    ELSE NoError

\* a DSSError that forgets to reset the cell
DSSErrorCell_NoReset(c, en) == en

\* the cells after DSSError
DSSErrorCell(c, en) ==
  IF en[c.errorNumberPtr] # 0 THEN [en EXCEPT ![c.errorNumberPtr] = 0] ELSE en

(***************************************************************************)
(* Construction.                                                           *)
(***************************************************************************)
\* DSSContextPtrs.Init: the pointers the engine hands out for ctxPtr
DSSContextPtrs_Init(ctxPtr) ==
  [ctxPtr |-> ctxPtr, errorNumberPtr |-> ctxPtr, grPtr |-> ctxPtr]

\* an Init that binds the facade to the handle it is given, nil included
IDSS_Init_Handle_AsGiven(ctxPtr) == ctxPtr

\* IDSS.Init: the handle the facade is bound to
IDSS_Init_Handle(ctxPtr) == IF ctxPtr = Null THEN Prime ELSE ctxPtr

\* IDSS.Init: the cells after the unchecked ctx_DSS_Start calls
IDSS_Init_Cells(en, ctxPtr, e1, e2) ==
  LET h   == IDSS_Init_Handle(ctxPtr)
      en1 == IF ctxPtr = Null THEN DSS_Start(en, h, e1) ELSE en
  IN  DSS_Start(en1, h, e2)

\* InitCommon: the handle a proxy of facade f passes to the engine
ProxyCtxPtr(f) == ctx[f].ctxPtr

TypeOK ==
  /\ created \subseteq Handles
  /\ released \in [Handles -> 0..2]
  /\ errNum \in [Handles -> Faults]
  /\ active \in [Handles -> 0..NumEntities]
  /\ circuit \in [Handles -> 0..NumCircuits]
  /\ facades \subseteq Facades
  /\ \A f \in facades : ctx[f].ctxPtr \in Handles

(***************************************************************************)
(* The proxies of a facade, in the order in which the Init methods reach   *)
(* them.                                                                   *)
(***************************************************************************)
\* IDSS.Init: dss.<field>.Init(ctx), in this order
IDSS_Proxies ==
  <<"ActiveCircuit", "Circuits", "Error", "Text", "DSSProgress",
    "ActiveClass", "Executive", "Parser", "YMatrix", "ZIP">>

\* ICircuit.Init: circuit.<field>.Init(ctx), in this order, after InitCommon
ICircuit_Proxies ==
  <<"Buses", "CktElements", "ActiveElement", "Solution", "ActiveBus",
    "Generators", "Meters", "Monitors", "Settings", "Lines", "CtrlQueue",
    "Loads", "ActiveCktElement", "ActiveDSSElement", "ActiveClass",
    "CapControls", "RegControls", "SwtControls", "Transformers",
    "Capacitors", "Topology", "Sensors", "XYCurves", "PDElements",
    "Reclosers", "Relays", "LoadShapes", "Fuses", "PVSystems", "Vsources",
    "LineCodes", "LineGeometries", "LineSpacings", "WireData", "CNData",
    "TSData", "Reactors", "ReduceCkt", "Storages", "GICSources", "Parallel">>

\* the fields of IDSS of type ICircuit
OfICircuit == {"ActiveCircuit", "Circuits"}
\* the fields of ICircuit of type ICktElement or IDSSElement: each has a
\* Properties proxy
WithProperties == {"CktElements", "ActiveElement", "ActiveCktElement", "ActiveDSSElement"}

RECURSIVE Flatten(_)
Flatten(ss) == IF ss = <<>> THEN <<>> ELSE Head(ss) \o Flatten(Tail(ss))

\* ICktElement.Init, IDSSElement.Init: InitCommon, then Properties.Init
ICktElement_Init(p) == <<p, Append(p, "Properties")>>

\* ICircuit.Init: InitCommon, then the Init of every field
ICircuit_Init(p) ==
  <<p>> \o Flatten([i \in 1..Len(ICircuit_Proxies) |->
                     IF ICircuit_Proxies[i] \in WithProperties
                       THEN ICktElement_Init(Append(p, ICircuit_Proxies[i]))
                       ELSE <<Append(p, ICircuit_Proxies[i])>>])

\* every InitCommon that IDSS.Init leads to, in order
ProxyInits ==
  Flatten([i \in 1..Len(IDSS_Proxies) |->
             IF IDSS_Proxies[i] \in OfICircuit
               THEN ICircuit_Init(<<IDSS_Proxies[i]>>)
               ELSE <<<<IDSS_Proxies[i]>>>>])

ProxyPaths == {ProxyInits[i] : i \in 1..Len(ProxyInits)}

\* the IDSS before its Init; its proxies are listed as InitCommon fills them
NoDSS == [ctx |-> 0, ctxPtr |-> Null]
NoInit == [pc |-> 0, arg |-> Null, ctxPtr |-> Null, id |-> 0, dss |-> NoDSS,
           cobj |-> NoCtx, proxies |-> <<>>, started |-> {}]

\* a goroutine that has not been started
Threads == {1, 2}
NoThread == [f |-> 0, pc |-> "idle", sel |-> 0, read |-> 0, prod |-> <<>>, raised |-> 0,
             cnt |-> 0, res |-> <<>>, err |-> NoError]

\* nothing allocated by the binding, nothing stored by the engine
InitExt ==
  /\ cmem = [b \in Blocks |-> -1]
  /\ busNames = [h \in Handles |-> <<>>]
  /\ enabled = [h \in Handles |-> 1..NumEntities]
  /\ iterateDisabled = [h \in Handles |-> 0]
  /\ visited = <<>>
  /\ epc = "idle"
  /\ activeBus = [h \in Handles |-> 0]
  /\ thr = [t \in Threads |-> NoThread]
  /\ ini = NoInit
  /\ compatFlags = [c \in {Null} \cup Handles |-> 0]
  /\ cktElement = [h \in Handles |-> 0]

\* the state after dss.Init(nil) on a fresh process
InitBase ==
  /\ InitExt
  /\ created = {}
  /\ released = [h \in Handles |-> 0]
  /\ \E e1, e2 \in Faults :
       errNum = IDSS_Init_Cells([h \in Handles |-> 0], Null, e1, e2)
  /\ active = [h \in Handles |-> 0]
  /\ circuit = [h \in Handles |-> 0]
  /\ gr = [h \in Handles |-> EmptyGR]
  /\ heap = [b \in Blocks |-> -1]
  /\ facades = {1}
  /\ ctx = [f \in Facades |-> IF f = 1 THEN DSSContextPtrs_Init(IDSS_Init_Handle(Null))
                              ELSE NoCtx]
  /\ ret = NoRet
  /\ held = NoHeld
  /\ iter = 0 /\ ctxVar = 0 /\ errVar = NoError

\* a program that uses the facade as it pleases
InitPrime == InitBase /\ pc = "idle"

(***************************************************************************)
(* Entity proxies, on the pattern of ICapacitors.  Every operation is the  *)
(* engine call followed by the Error Channel check, in that order.         *)
(***************************************************************************)
Return(op, f, val, err, raw) ==
  [op |-> op, f |-> f, val |-> val, err |-> err, raw |-> raw, cnt |-> 0,
   blk |-> {}, backing |-> "host"]

\* a proxy operation that returns without consulting the Error Channel
Checked_Skipped(f, en) == [cells |-> en, err |-> NoError]

\* return ..., proxy.ctx.DSSError(): the check every operation ends with
Checked(f, en) ==
  [cells |-> DSSErrorCell(ctx[f], en), err |-> DSSErrorValue(ctx[f], en)]

\* operations are issued on facades whose engine instance exists
Usable(f) == f \in facades /\ ProxyCtxPtr(f) \in Live

\* ICapacitors.Get_idx: a scalar getter; the binding passes on what the engine
\* returns (0 when the call faults)
Get_idx(f) ==
  /\ Usable(f)
  /\ \E e \in Faults :
       LET h   == ProxyCtxPtr(f)
           raw == IF e = 0 THEN active[h] ELSE 0
           chk == Checked(f, RaiseFault(errNum, h, e))
       IN  /\ errNum' = chk.cells
           /\ ret' = Return("Get_idx", f, <<raw>>, chk.err, raw)
  /\ UNCHANGED <<created, released, active, circuit, gr, heap, facades, ctx, held>>
  /\ UNCHANGED mainVars

\* ICapacitors.Set_idx: a setter; the engine rejects an index outside 1..count
Set_idx(f, value) ==
  /\ Usable(f)
  /\ \E fault \in (IF value \in 1..NumEntities THEN Faults ELSE 1..MaxErr) :
       LET h     == ProxyCtxPtr(f)
           chk   == Checked(f, RaiseFault(errNum, h, fault))
       IN  /\ active' = IF fault = 0 THEN [active EXCEPT ![h] = value] ELSE active
           /\ errNum' = chk.cells
           /\ ret' = Return("Set_idx", f, <<>>, chk.err, 0)
  /\ UNCHANGED <<created, released, circuit, gr, heap, facades, ctx, held>>
  /\ UNCHANGED mainVars

\* ICapacitors.First: an action; returns 0 if there is none
First(f) ==
  /\ Usable(f)
  /\ \E e \in Faults :
       LET h   == ProxyCtxPtr(f)
           raw == IF e = 0 /\ NumEntities >= 1 THEN 1 ELSE 0
           chk == Checked(f, RaiseFault(errNum, h, e))
       IN  /\ active' = IF e = 0 THEN [active EXCEPT ![h] = raw] ELSE active
           /\ errNum' = chk.cells
           /\ ret' = Return("First", f, <<raw>>, chk.err, raw)
  /\ UNCHANGED <<created, released, circuit, gr, heap, facades, ctx, held>>
  /\ UNCHANGED mainVars

\* a direct call of DSSContextPtrs.DSSError: no engine call precedes the check
DSSError(f) ==
  /\ Usable(f)
  /\ errNum' = DSSErrorCell(ctx[f], errNum)
  /\ ret' = Return("DSSError", f, <<>>, DSSErrorValue(ctx[f], errNum),
                   errNum[ctx[f].errorNumberPtr])
  /\ UNCHANGED <<created, released, active, circuit, gr, heap, facades, ctx, held>>
  /\ UNCHANGED mainVars

(***************************************************************************)
(* Numeric array setters, on the pattern of ICapacitors.Set_States: the     *)
(* address of the first element and the length go to the engine.            *)
(***************************************************************************)
\* the run-time panic of an index expression out of range
IndexPanic == [kind |-> "panic: index out of range", num |-> 0, desc |-> 0]

\* the arrays a caller passes, one of each length, the empty one among them
NumericArgs == {[i \in 1..n |-> 1] : n \in 0..MaxCopyLen}

\* ICapacitors.Set_States: &value[0] is evaluated first and panics on an
\* empty slice, before the engine is called; otherwise the engine call with
\* the pointer and len(value), then the check
Set_States(f, value) ==
  /\ Usable(f)
  /\ IF Len(value) = 0
     THEN /\ ret' = Return("Set_States", f, <<>>, IndexPanic, [called |-> FALSE, cnt |-> 0])
          /\ UNCHANGED errNum
     ELSE \E e \in Faults :
            LET h   == ProxyCtxPtr(f)
                chk == Checked(f, RaiseFault(errNum, h, e))
            IN  /\ errNum' = chk.cells
                /\ ret' = Return("Set_States", f, <<>>, chk.err,
                                 [called |-> TRUE, cnt |-> Len(value)])
  /\ UNCHANGED <<created, released, active, circuit, gr, heap, facades, ctx, held>>
  /\ UNCHANGED mainVars

(***************************************************************************)
(* IError.                                                                 *)
(***************************************************************************)
\* an engine whose ctx_Error_Get_Number leaves the number in place
Error_Get_Number_Cells_Kept(en, h) == en

\* ctx_Error_Get_Number: "returns current value and then resets to zero"
Error_Get_Number_Cells(en, h) == [en EXCEPT ![h] = 0]

\* IError.Number: the engine call first, then the check, left to right
Error_Number(f) ==
  /\ Usable(f)
  /\ LET h   == ProxyCtxPtr(f)
         raw == errNum[h]
         chk == Checked(f, Error_Get_Number_Cells(errNum, h))
     IN  /\ errNum' = chk.cells
         /\ ret' = Return("Error.Number", f, <<raw>>, chk.err, raw)
  /\ UNCHANGED <<created, released, active, circuit, gr, heap, facades, ctx, held>>
  /\ UNCHANGED mainVars

(***************************************************************************)
(* Scratch-buffer marshalling.                                             *)
(***************************************************************************)
\* what a ..._GR engine call may leave in a buffer
DoubleFills == SeqsUpTo(Vals, MaxCount)
ShortFills == SeqsUpTo(Vals, MaxCopyLen)
IntFills == {[i \in 1..n |-> 10 + i] : n \in 0..MaxCopyLen}
ByteFills == {[i \in 1..n |-> 20 + i] : n \in 0..MaxCopyLen}
\* the results the engine leaves when it has nothing to return: [] or, with
\* COMErrorResults, [0.0]
DefaultResults == {<<>>, <<0>>}

\* a ctx_..._GR call: the engine refills the buffer of its instance and
\* writes the element count into slot 0 of the count cell
GR_Fill(g, h, kind, d) == [g EXCEPT ![h][kind] = [cnt |-> Len(d), data |-> d]]

\* (*ctx.CountPtr_...)[0]
CountOf(c, g, kind) == g[c.grPtr][kind].cnt
\* *ctx.DataPtr_...
DataOf(c, g, kind) == g[c.grPtr][kind].data

\* a getter that hands out the engine buffer itself
ResultBacking_Alias(kind) == kind

\* make([]T, res_cnt); copy(result, cdata): the result is host memory
ResultBacking(kind) == "host"

\* element i of a buffer; past its end the read yields whatever is there
At(data, i, junk) == IF i <= Len(data) THEN data[i] ELSE junk

\* the values a read of element i may yield: the element, or anything past the end
JunkFor(data, i) == IF i <= Len(data) THEN {0} ELSE Vals

\* GetFloat64ArrayGR, the value
GetFloat64ArrayGR(c, g) ==
  LET res_cnt == CountOf(c, g, "PDouble")
  IN  SubSeq(DataOf(c, g, "PDouble"), 1, res_cnt)

\* GetInt32ArrayGR, the value
GetInt32ArrayGR(c, g) ==
  LET res_cnt == CountOf(c, g, "PInteger")
  IN  SubSeq(DataOf(c, g, "PInteger"), 1, res_cnt)

\* GetUInt8ArrayGR, the value
GetUInt8ArrayGR(c, g) ==
  LET res_cnt == CountOf(c, g, "PByte")
  IN  SubSeq(DataOf(c, g, "PByte"), 1, res_cnt)

\* a complex decode that does not halve the count
GetComplexArrayGR_NoHalving(c, g) ==
  LET res_cnt == CountOf(c, g, "PDouble")
      data    == DataOf(c, g, "PDouble")
  IN  [k \in 1..res_cnt |-> <<At(data, 2 * k - 1, 0), At(data, 2 * k, 0)>>]

\* GetComplexArrayGR, the value
GetComplexArrayGR(c, g) ==
  LET res_cnt0 == CountOf(c, g, "PDouble")
      res_cnt1 == IF res_cnt0 = 1 THEN 0 ELSE res_cnt0
      res_cnt  == res_cnt1 \div 2
      data     == DataOf(c, g, "PDouble")
  IN  [k \in 1..res_cnt |-> <<data[2 * k - 1], data[2 * k]>>]

\* a single-complex decode that raises its own error whatever the engine said
GetComplexSimpleGR_AlwaysInvalid(c, g, err, j1, j2) ==
  LET res_cnt == CountOf(c, g, "PDouble")
      data    == DataOf(c, g, "PDouble")
  IN  IF res_cnt # 2
        THEN [val |-> <<0, 0>>, err |-> InvalidComplex]
        ELSE [val |-> <<At(data, 1, j1), At(data, 2, j2)>>, err |-> err]

\* a single-complex decode whose own error carries the buffer instead of 0
GetComplexSimpleGR_NoZero(c, g, err, j1, j2) ==
  LET res_cnt == CountOf(c, g, "PDouble")
      data    == DataOf(c, g, "PDouble")
  IN  [val |-> <<At(data, 1, j1), At(data, 2, j2)>>,
       err |-> IF err = NoError /\ res_cnt # 2 THEN InvalidComplex ELSE err]

\* GetComplexSimpleGR, value and error; err is what DSSError returned
GetComplexSimpleGR(c, g, err, j1, j2) ==
  LET res_cnt == CountOf(c, g, "PDouble")
      data    == DataOf(c, g, "PDouble")
  IN  IF err = NoError /\ res_cnt # 2
        THEN [val |-> <<0, 0>>, err |-> InvalidComplex]
        ELSE [val |-> <<At(data, 1, j1), At(data, 2, j2)>>, err |-> err]

ArrayReturn(op, f, kind, val, err, g) ==
  [op |-> op, f |-> f, val |-> val, err |-> err, raw |-> 0,
   cnt |-> CountOf(ctx[f], g, kind), blk |-> {}, backing |-> ResultBacking(kind)]

\* a proxy method returning a float array, e.g. ICircuit.AllBusDistances
Float64Array(f, fills) ==
  /\ Usable(f)
  /\ \E e \in Faults, d \in fills :
       LET h   == ProxyCtxPtr(f)
           g   == GR_Fill(gr, h, "PDouble", d)
           chk == Checked(f, RaiseFault(errNum, h, e))
       IN  /\ gr' = g
           /\ errNum' = chk.cells
           /\ ret' = ArrayReturn("Float64Array", f, "PDouble",
                                 GetFloat64ArrayGR(ctx[f], g), chk.err, g)
  /\ UNCHANGED <<created, released, active, circuit, heap, facades, ctx, held>>
  /\ UNCHANGED mainVars

\* a proxy method returning an integer array, e.g. IBus.Nodes
Int32Array(f, fills) ==
  /\ Usable(f)
  /\ \E e \in Faults, d \in fills :
       LET h   == ProxyCtxPtr(f)
           g   == GR_Fill(gr, h, "PInteger", d)
           chk == Checked(f, RaiseFault(errNum, h, e))
       IN  /\ gr' = g
           /\ errNum' = chk.cells
           /\ ret' = ArrayReturn("Int32Array", f, "PInteger",
                                 GetInt32ArrayGR(ctx[f], g), chk.err, g)
  /\ UNCHANGED <<created, released, active, circuit, heap, facades, ctx, held>>
  /\ UNCHANGED mainVars

\* a proxy method returning a byte array, e.g. IMonitors.ByteStream
UInt8Array(f, fills) ==
  /\ Usable(f)
  /\ \E e \in Faults, d \in fills :
       LET h   == ProxyCtxPtr(f)
           g   == GR_Fill(gr, h, "PByte", d)
           chk == Checked(f, RaiseFault(errNum, h, e))
       IN  /\ gr' = g
           /\ errNum' = chk.cells
           /\ ret' = ArrayReturn("UInt8Array", f, "PByte",
                                 GetUInt8ArrayGR(ctx[f], g), chk.err, g)
  /\ UNCHANGED <<created, released, active, circuit, heap, facades, ctx, held>>
  /\ UNCHANGED mainVars

\* a proxy method returning a complex array, e.g. IBus.CplxSeqVoltages
ComplexArray(f, fills) ==
  /\ Usable(f)
  /\ \E e \in Faults, d \in fills :
       LET h   == ProxyCtxPtr(f)
           g   == GR_Fill(gr, h, "PDouble", d)
           chk == Checked(f, RaiseFault(errNum, h, e))
       IN  /\ gr' = g
           /\ errNum' = chk.cells
           /\ ret' = ArrayReturn("ComplexArray", f, "PDouble",
                                 GetComplexArrayGR(ctx[f], g), chk.err, g)
  /\ UNCHANGED <<created, released, active, circuit, heap, facades, ctx, held>>
  /\ UNCHANGED mainVars

\* a proxy method returning one complex number, e.g. IBus.Zsc0
ComplexSimple(f, fills) ==
  /\ Usable(f)
  /\ \E e \in Faults, d \in fills : \E j1 \in JunkFor(d, 1), j2 \in JunkFor(d, 2) :
       LET h   == ProxyCtxPtr(f)
           g   == GR_Fill(gr, h, "PDouble", d)
           en  == RaiseFault(errNum, h, e)
           chk == Checked(f, en)
           res == GetComplexSimpleGR(ctx[f], g, chk.err, j1, j2)
       IN  /\ gr' = g
           /\ errNum' = chk.cells
           /\ ret' = [op |-> "ComplexSimple", f |-> f, val |-> res.val, err |-> res.err,
                      raw |-> en[ctx[f].errorNumberPtr], cnt |-> CountOf(ctx[f], g, "PDouble"), blk |-> {},
                      backing |-> "host"]
  /\ UNCHANGED <<created, released, active, circuit, heap, facades, ctx, held>>
  /\ UNCHANGED mainVars

(***************************************************************************)
(* Inbound string arrays.                                                  *)
(***************************************************************************)
StringFills == SeqsUpTo(NativeNames, MaxStrs)

\* C.GoString: the bytes before the first NUL, copied into a host string
GoString(cs) ==
  LET nul == CHOOSE i \in 1..Len(cs) : cs[i] = 0 /\ \A j \in 1..(i - 1) : cs[j] # 0
  IN  SubSeq(cs, 1, nul - 1)

\* ctx_..._Get_AllNames(ctxPtr, &data, &cnt[0]): the engine allocates the
\* pointer array (when data is not nil) and one native string per element
AllocStringArray(hasData, cnt) ==
  [b \in Blocks |-> IF (b = ArrayBlock /\ hasData) \/ (b # ArrayBlock /\ b - 1 <= cnt)
                    THEN 0 ELSE -1]

\* DSS_Dispose_PPAnsiChar(&data, cnt): releases the first cnt strings of the
\* array and then the array; nothing when data is nil
DSS_Dispose_PPAnsiChar(hp, hasData, cnt) ==
  [b \in Blocks |-> IF hasData /\ (b = ArrayBlock \/ b - 1 <= cnt)
                    THEN hp[b] + 1 ELSE hp[b]]

\* GetStringArray, the value
GetStringArray(cdata, cnt) ==
  LET res_cnt == cnt[1]
  IN  [i \in 1..res_cnt |-> GoString(cdata[i])]

\* a GetStringArray that returns without releasing the native array
GetStringArray_Release_Leaks(hp, hasData, cnt) == hp

\* GetStringArray, the native blocks after it
GetStringArray_Release(hp, hasData, cnt) == DSS_Dispose_PPAnsiChar(hp, hasData, cnt[1])

\* a proxy method returning a string array, e.g. ICircuit.AllBusNames
StringArray(f, fills) ==
  /\ Usable(f)
  /\ \E e \in Faults, cdata \in fills, nilData \in BOOLEAN :
       LET h       == ProxyCtxPtr(f)
           hasData == Len(cdata) > 0 \/ ~nilData
           cnt     == <<Len(cdata), 0, 0, 0>>
           hp      == AllocStringArray(hasData, cnt[1])
           chk     == Checked(f, RaiseFault(errNum, h, e))
       IN  /\ errNum' = chk.cells
           /\ heap' = GetStringArray_Release(hp, hasData, cnt)
           /\ ret' = [op |-> "StringArray", f |-> f, val |-> GetStringArray(cdata, cnt),
                      err |-> chk.err, raw |-> cdata, cnt |-> cnt[1],
                      blk |-> {b \in Blocks : hp[b] = 0}, backing |-> "host"]
  /\ UNCHANGED <<created, released, active, circuit, gr, facades, ctx, held>>
  /\ UNCHANGED mainVars

(***************************************************************************)
(* Outbound native strings: setters and actions taking a string or a       *)
(* string array.                                                           *)
(***************************************************************************)
\* the size of a native pointer, in bytes
PtrSize == 8

\* host strings passed by the caller; a Go string may hold a NUL byte
HostStrings == {<<1>>, <<2, 1>>, <<1, 0, 2>>}
HostArrays == SeqsUpTo(HostStrings, MaxStrs)

\* C.CString: a native copy of the bytes of the host string and a final NUL
CString(s) == Append(s, 0)

\* the string the engine reads from a native string: up to the first NUL,
\* kept by the engine as a native string of its own
EngineString(cs) == Append(GoString(cs), 0)

\* PrepareStringArray: the size in bytes of the block malloc is asked for
PrepareStringArray_Size(value) == Len(value)

\* PrepareStringArray: cdata[i] = ... writes slot i (from 1); it lies inside
\* a block of the given size when its last byte does
SlotInside(i, size) == i * PtrSize <= size

\* PrepareStringArray: the pointer array, one C.CString per element, and the
\* blocks allocated (the array, then one per string)
PrepareStringArray(value) ==
  [size  |-> PrepareStringArray_Size(value),
   cdata |-> [i \in 1..Len(value) |-> CString(value[i])],
   mem   |-> [b \in Blocks |-> IF b = ArrayBlock \/ b - 1 <= Len(value) THEN 0 ELSE -1]]

\* FreeStringArray: C.free of the first count strings and of the array
FreeStringArray(mem, count) ==
  [b \in Blocks |-> IF b = ArrayBlock \/ b - 1 <= count THEN mem[b] + 1 ELSE mem[b]]

\* writes past the end of the malloc block are undefined behaviour: the
\* pointers and strings may be intact, or what the engine reads is garbled,
\* or the allocator also aborts the process in C.free
OverflowOutcomes(prep) ==
  IF \A i \in 1..Len(prep.cdata) : SlotInside(i, prep.size)
  THEN {"intact"} ELSE {"intact", "garbled", "abort"}

\* what the engine reads in place of a slot that was overwritten: here, an
\* empty string
Garbage == <<0>>

\* the process was terminated inside the method
Aborted == [kind |-> "abort", num |-> 0, desc |-> 0]

\* what a method that took native strings returned: val holds the blocks as
\* they were during the engine call, blk the blocks allocated, raw the
\* argument
StringReturn(op, f, value, err, memAtCall, outcome) ==
  [op |-> op, f |-> f, val |-> <<memAtCall>>, err |-> err, raw |-> value,
   cnt |-> Len(value), blk |-> {b \in Blocks : memAtCall[b] # -1}, backing |-> outcome]

\* ICktElement.Set_BusNames: PrepareStringArray, the deferred
\* FreeStringArray, the engine call, the Error Channel check, and then the
\* deferred call
Set_BusNames(f, value) ==
  /\ Usable(f)
  /\ LET prep == PrepareStringArray(value)
         h    == ProxyCtxPtr(f)
     IN  \E e \in Faults, u \in OverflowOutcomes(prep) :
           LET seen == [i \in 1..Len(value) |->
                          IF u = "intact" \/ SlotInside(i, prep.size)
                          THEN prep.cdata[i] ELSE Garbage]
               chk  == Checked(f, RaiseFault(errNum, h, e))
           IN  /\ busNames' = IF e = 0
                              THEN [busNames EXCEPT
                                      ![h] = [i \in 1..Len(seen) |-> EngineString(seen[i])]]
                              ELSE busNames
               /\ errNum' = chk.cells
               /\ cmem' = IF u = "abort" THEN prep.mem
                          ELSE FreeStringArray(prep.mem, Len(value))
               /\ ret' = StringReturn("Set_BusNames", f, value,
                                      IF u = "abort" THEN Aborted ELSE chk.err,
                                      prep.mem, u)
  /\ UNCHANGED <<created, released, active, circuit, gr, heap, facades, ctx, held>>
  /\ UNCHANGED mainVars

\* ICktElement.Get_BusNames: a string-array getter; the engine returns the
\* names it holds
Get_BusNames(f) ==
  /\ StringArray(f, {busNames[ProxyCtxPtr(f)]})
  /\ UNCHANGED <<cmem, busNames>>

\* ILines.Set_Bus1: C.CString, the engine call, the deferred C.free, and the
\* Error Channel check before the deferred call runs
Set_Bus1(f, value) ==
  /\ Usable(f)
  /\ \E e \in Faults :
       LET h         == ProxyCtxPtr(f)
           value_c   == CString(value)
           memAtCall == [b \in Blocks |-> IF b = ArrayBlock THEN 0 ELSE -1]
           chk       == Checked(f, RaiseFault(errNum, h, e))
       IN  /\ busNames' = IF e = 0 /\ Len(busNames[h]) >= 1
                          THEN [busNames EXCEPT ![h][1] = EngineString(value_c)]
                          ELSE busNames
           /\ errNum' = chk.cells
           /\ cmem' = [memAtCall EXCEPT ![ArrayBlock] = @ + 1]
           /\ ret' = StringReturn("Set_Bus1", f, <<value>>, chk.err, memAtCall, "intact")
  /\ UNCHANGED <<created, released, active, circuit, gr, heap, facades, ctx, held>>
  /\ UNCHANGED mainVars

(***************************************************************************)
(* An enumerable category, on the pattern of ILines.  The engine follows   *)
(* the contract the binding documents: indices are 1-based, First and Next *)
(* return 0 if there is no more, disabled elements are skipped unless      *)
(* IterateDisabled is 1, a call without a circuit raises a fault.          *)
(***************************************************************************)
\* ctx_Lines_Get_Count: the Lines of the circuit, disabled ones included
Count(h) == IF circuit[h] = 0 THEN 0 ELSE NumEntities

\* an engine that skips disabled Lines whatever IterateDisabled says
Iterable_IgnoresFlag(h) == IF circuit[h] = 0 THEN {} ELSE enabled[h]

\* the Lines that First and Next stop at
Iterable(h) ==
  IF circuit[h] = 0 THEN {}
  ELSE IF iterateDisabled[h] = 1 THEN 1..NumEntities ELSE enabled[h]

\* the faults an engine call on a category may raise
CircuitFaults(h) == IF circuit[h] = 0 THEN 1..MaxErr ELSE {0}

\* an index the engine accepts counts from 0
IndexValid_ZeroBased(h, value) == value \in 0..(Count(h) - 1)

\* Set_idx: "index is 1-based: 1..count"
IndexValid(h, value) == value \in 1..Count(h)

\* the name of the i-th Line, as a host string
LineName(i) == <<i>>

\* the Lines with the given native name
LinesNamed(h, cs) == {i \in 1..Count(h) : LineName(i) = GoString(cs)}

Least(S) == CHOOSE i \in S : \A k \in S : i <= k

\* an engine that keeps the flags per instance
FlagsCell_PerInstance(h) == h

\* "THESE FLAGS ARE GLOBAL, affecting all DSS engines in the process": the
\* engine keeps them in one cell, whatever the handle
FlagsCell(h) == Null

\* DSSCompatFlags_ActiveLine: the bit of the compatibility flags that makes
\* the Lines interface use the active circuit element
DSSCompatFlags_ActiveLine == 16

\* whether the ActiveLine flag is set for the instance
ActiveLineFlag(h) == (compatFlags[FlagsCell(h)] \div DSSCompatFlags_ActiveLine) % 2 = 1

\* an engine whose Lines interface uses its own list whatever the flag says
ActiveLine_OwnList(h) == active[h]

\* the Line the Lines interface acts on: "In the official OpenDSS
\* implementation, the Lines API use the active circuit element instead of
\* the active line"; without the flag, "the active object in the internal
\* list"
ActiveLine(h) ==
  IF ActiveLineFlag(h)
  THEN IF cktElement[h] \in 1..Count(h) THEN cktElement[h] ELSE 0
  ELSE active[h]

\* an engine that reports the name of the first Line, whichever is active
ActiveLineName_First(h) == IF Count(h) >= 1 THEN CString(LineName(1)) ELSE <<0>>

\* ctx_Lines_Get_Name: the native name of the active Line, empty if none
ActiveLineName(h) ==
  IF ActiveLine(h) \in 1..Count(h) THEN CString(LineName(ActiveLine(h))) ELSE <<0>>

\* ILines.Count
Lines_Count(f) ==
  /\ Usable(f)
  /\ \E e \in CircuitFaults(ProxyCtxPtr(f)) :
       LET h   == ProxyCtxPtr(f)
           raw == Count(h)
           chk == Checked(f, RaiseFault(errNum, h, e))
       IN  /\ errNum' = chk.cells
           /\ ret' = Return("Lines.Count", f, <<raw>>, chk.err, raw)
  /\ UNCHANGED <<created, released, active, circuit, gr, heap, facades, ctx, held>>
  /\ UNCHANGED mainVars

\* ILines.First: "Sets the first Line active. Returns 0 if no more."
Lines_First(f) ==
  /\ Usable(f)
  /\ \E e \in CircuitFaults(ProxyCtxPtr(f)) :
       LET h     == ProxyCtxPtr(f)
           found == e = 0 /\ Iterable(h) # {}
           raw   == IF found THEN 1 ELSE 0
           chk   == Checked(f, RaiseFault(errNum, h, e))
       IN  /\ active' = IF found THEN [active EXCEPT ![h] = Least(Iterable(h))] ELSE active
           /\ errNum' = chk.cells
           /\ ret' = Return("Lines.First", f, <<raw>>, chk.err, raw)
  /\ UNCHANGED <<created, released, circuit, gr, heap, facades, ctx, held>>
  /\ UNCHANGED mainVars

\* ILines.Next: "Sets the next Line active. Returns 0 if no more."
Lines_Next(f) ==
  /\ Usable(f)
  /\ \E e \in CircuitFaults(ProxyCtxPtr(f)) :
       LET h     == ProxyCtxPtr(f)
           rest  == {i \in Iterable(h) : i > active[h]}
           found == e = 0 /\ rest # {}
           raw   == IF found THEN Least(rest) ELSE 0
           chk   == Checked(f, RaiseFault(errNum, h, e))
       IN  /\ active' = IF found THEN [active EXCEPT ![h] = raw] ELSE active
           /\ errNum' = chk.cells
           /\ ret' = Return("Lines.Next", f, <<raw>>, chk.err, raw)
  /\ UNCHANGED <<created, released, circuit, gr, heap, facades, ctx, held>>
  /\ UNCHANGED mainVars

\* ILines.Get_idx: "index is 1-based: 1..count"
Lines_Get_idx(f) ==
  /\ Usable(f)
  /\ \E e \in CircuitFaults(ProxyCtxPtr(f)) :
       LET h   == ProxyCtxPtr(f)
           raw == IF e = 0 THEN active[h] ELSE 0
           chk == Checked(f, RaiseFault(errNum, h, e))
       IN  /\ errNum' = chk.cells
           /\ ret' = Return("Lines.Get_idx", f, <<raw>>, chk.err, raw)
  /\ UNCHANGED <<created, released, active, circuit, gr, heap, facades, ctx, held>>
  /\ UNCHANGED mainVars

\* ILines.Set_idx
Lines_Set_idx(f, value) ==
  /\ Usable(f)
  /\ LET h == ProxyCtxPtr(f)
     IN  \E e \in (IF IndexValid(h, value) THEN CircuitFaults(h) ELSE 1..MaxErr) :
           LET chk == Checked(f, RaiseFault(errNum, h, e))
           IN  /\ active' = IF e = 0 THEN [active EXCEPT ![h] = value] ELSE active
               /\ errNum' = chk.cells
               /\ ret' = Return("Lines.Set_idx", f, <<>>, chk.err, value)
  /\ UNCHANGED <<created, released, circuit, gr, heap, facades, ctx, held>>
  /\ UNCHANGED mainVars

\* the names a caller passes to Set_Name: those of the Lines, one of no
\* Line, one with a NUL byte
NameArgs == {LineName(i) : i \in 1..NumEntities} \cup {<<NumEntities + 1>>, <<1, 0, 2>>}

\* ILines.Set_Name: C.CString, the engine call, C.free, the check
Lines_Set_Name(f, value) ==
  /\ Usable(f)
  /\ LET h       == ProxyCtxPtr(f)
         value_c == CString(value)
         named   == LinesNamed(h, value_c)
     IN  \E e \in (IF named # {} THEN {0} ELSE 1..MaxErr) :
           LET chk == Checked(f, RaiseFault(errNum, h, e))
           IN  /\ active' = IF e = 0 THEN [active EXCEPT ![h] = Least(named)] ELSE active
               /\ errNum' = chk.cells
               /\ ret' = Return("Lines.Set_Name", f, <<>>, chk.err, value)
  /\ UNCHANGED <<created, released, circuit, gr, heap, facades, ctx, held>>
  /\ UNCHANGED mainVars

\* ILines.Get_Name: C.GoString of the engine's string, then the check
Lines_Get_Name(f) ==
  /\ Usable(f)
  /\ \E e \in CircuitFaults(ProxyCtxPtr(f)) :
       LET h      == ProxyCtxPtr(f)
           cs     == IF e = 0 THEN ActiveLineName(h) ELSE <<0>>
           result == GoString(cs)
           chk    == Checked(f, RaiseFault(errNum, h, e))
       IN  /\ errNum' = chk.cells
           /\ ret' = Return("Lines.Get_Name", f, <<result>>, chk.err, cs)
  /\ UNCHANGED <<created, released, active, circuit, gr, heap, facades, ctx, held>>
  /\ UNCHANGED mainVars

\* ctx_Lines_Get_AllNames: what the engine returns
AllLineNames(h) == [i \in 1..Count(h) |-> CString(LineName(i))]

\* ILines.AllNames
Lines_AllNames(f) == StringArray(f, {AllLineNames(ProxyCtxPtr(f))})

\* ICktElement.Set_Enabled, the active circuit element being the active Line
Set_Enabled(f, value) ==
  /\ Usable(f)
  /\ LET h == ProxyCtxPtr(f)
     IN  \E e \in (IF active[h] \in 1..Count(h) THEN {0} ELSE 1..MaxErr) :
           LET chk == Checked(f, RaiseFault(errNum, h, e))
           IN  /\ enabled' = IF e # 0 THEN enabled
                             ELSE IF value THEN [enabled EXCEPT ![h] = @ \cup {active[h]}]
                             ELSE [enabled EXCEPT ![h] = @ \ {active[h]}]
               /\ errNum' = chk.cells
               /\ ret' = Return("Set_Enabled", f, <<>>, chk.err, 0)
  /\ UNCHANGED <<created, released, active, circuit, gr, heap, facades, ctx, held>>
  /\ UNCHANGED <<mainVars, iterateDisabled>>

\* ISettings.Set_IterateDisabled
Set_IterateDisabled(f, value) ==
  /\ Usable(f)
  /\ LET h   == ProxyCtxPtr(f)
         chk == Checked(f, errNum)
     IN  /\ iterateDisabled' = [iterateDisabled EXCEPT ![h] = value]
         /\ errNum' = chk.cells
         /\ ret' = Return("Set_IterateDisabled", f, <<>>, chk.err, value)
  /\ UNCHANGED <<created, released, active, circuit, gr, heap, facades, ctx, held>>
  /\ UNCHANGED <<mainVars, enabled>>

(***************************************************************************)
(* A caller that enumerates the Lines of the prime facade: First, then     *)
(* Next until 0 is returned.                                               *)
(***************************************************************************)
Enum_Start ==
  /\ epc = "idle"
  /\ epc' = "first"
  /\ visited' = <<>>
  /\ UNCHANGED <<created, released, errNum, active, circuit, gr, heap, facades, ctx,
                 ret, held>>
  /\ UNCHANGED <<mainVars, enumVars>>

\* i, _ := Lines.First(); for i != 0 { visit }
Enum_First ==
  /\ epc = "first"
  /\ Lines_First(1)
  /\ visited' = IF ret'.val[1] # 0 THEN <<active'[ProxyCtxPtr(1)]>> ELSE visited
  /\ epc' = IF ret'.val[1] # 0 THEN "next" ELSE "done"
  /\ UNCHANGED enumVars

\* i, _ = Lines.Next()
Enum_Next ==
  /\ epc = "next"
  /\ Lines_Next(1)
  /\ visited' = IF ret'.val[1] # 0 THEN Append(visited, active'[ProxyCtxPtr(1)]) ELSE visited
  /\ epc' = IF ret'.val[1] # 0 THEN "next" ELSE "done"
  /\ UNCHANGED enumVars

Enum_Done ==
  /\ epc = "done"
  /\ epc' = "idle"
  /\ UNCHANGED <<created, released, errNum, active, circuit, gr, heap, facades, ctx,
                 ret, held, visited>>
  /\ UNCHANGED <<mainVars, enumVars>>

(***************************************************************************)
(* Buses: Circuit.SetActiveBus, Circuit.get_Buses and ActiveBus.Name.      *)
(***************************************************************************)
\* the buses of the circuit of instance h, and their names
Buses(h) == IF circuit[h] = 0 THEN {} ELSE 1..NumEntities
BusName(b) == <<b>>

\* the buses with the given native name
BusesNamed(h, cs) == {b \in Buses(h) : BusName(b) = GoString(cs)}

\* an engine that never moves the active bus off the first one
SetActiveBus_Engine_Stuck(h, cs) == IF Buses(h) # {} THEN 1 ELSE activeBus[h]

\* ctx_Circuit_SetActiveBus, the active bus after it: the bus of that name,
\* if there is one
SetActiveBus_Engine(h, cs) ==
  IF BusesNamed(h, cs) # {} THEN Least(BusesNamed(h, cs)) ELSE activeBus[h]

\* ctx_Circuit_SetActiveBus, the result: the zero-based index of the bus, a
\* negative number if it could not be activated
SetActiveBus_Result(h, cs) ==
  IF BusesNamed(h, cs) # {} THEN Least(BusesNamed(h, cs)) - 1 ELSE -1

\* the faults ctx_Circuit_SetActiveBus may raise: it may or may not report a
\* name that is no bus through the Error Channel
SetActiveBus_Faults(h, cs) ==
  IF circuit[h] = 0 THEN 1..MaxErr
  ELSE IF BusesNamed(h, cs) # {} THEN {0} ELSE Faults

\* one C.CString, live
OneString == [b \in Blocks |-> IF b = ArrayBlock THEN 0 ELSE -1]

\* ICircuit.SetActiveBus: C.CString, the deferred C.free, the engine call,
\* the check, and then the deferred call
SetActiveBus(f, BusName_) ==
  /\ Usable(f)
  /\ LET h         == ProxyCtxPtr(f)
         BusName_c == CString(BusName_)
     IN  \E e \in SetActiveBus_Faults(h, BusName_c) :
           LET chk == Checked(f, RaiseFault(errNum, h, e))
               raw == SetActiveBus_Result(h, BusName_c)
           IN  /\ activeBus' = [activeBus EXCEPT ![h] = SetActiveBus_Engine(h, BusName_c)]
               /\ errNum' = chk.cells
               /\ cmem' = [OneString EXCEPT ![ArrayBlock] = @ + 1]
               /\ ret' = [op |-> "SetActiveBus", f |-> f, val |-> <<raw>>, err |-> chk.err,
                          raw |-> BusName_, cnt |-> 0, blk |-> {ArrayBlock},
                          backing |-> "host"]
  /\ UNCHANGED <<created, released, active, circuit, gr, heap, facades, ctx, held>>
  /\ UNCHANGED <<mainVars, busNames>>

\* ICircuit.get_Buses: C.CString, the engine call, C.free on either branch,
\* then the check; a nil proxy if the engine's result is negative
get_Buses(f, name) ==
  /\ Usable(f)
  /\ LET h      == ProxyCtxPtr(f)
         name_c == CString(name)
     IN  \E e \in SetActiveBus_Faults(h, name_c) :
           LET chk   == Checked(f, RaiseFault(errNum, h, e))
               raw   == SetActiveBus_Result(h, name_c)
               proxy == IF raw < 0 THEN "nil" ELSE "ActiveBus"
           IN  /\ activeBus' = [activeBus EXCEPT ![h] = SetActiveBus_Engine(h, name_c)]
               /\ errNum' = chk.cells
               /\ cmem' = [OneString EXCEPT ![ArrayBlock] = @ + 1]
               /\ ret' = [op |-> "get_Buses", f |-> f, val |-> <<proxy>>, err |-> chk.err,
                          raw |-> name, cnt |-> 0, blk |-> {ArrayBlock},
                          backing |-> "host"]
  /\ UNCHANGED <<created, released, active, circuit, gr, heap, facades, ctx, held>>
  /\ UNCHANGED <<mainVars, busNames>>

\* ctx_Circuit_SetActiveBusi: the bus of that zero-based index becomes the
\* active one; a negative result and the active bus unchanged otherwise
BusIndexArgs == (0 - 1)..NumEntities
SetActiveBusi_Engine(h, idx) == IF idx + 1 \in Buses(h) THEN idx + 1 ELSE activeBus[h]
SetActiveBusi_Result(h, idx) == IF idx + 1 \in Buses(h) THEN idx ELSE 0 - 1
SetActiveBusi_Faults(h, idx) ==
  IF circuit[h] = 0 THEN 1..MaxErr
  ELSE IF idx + 1 \in Buses(h) THEN {0} ELSE Faults

\* ICircuit.Get_Buses: the engine call, then the check; a nil proxy if the
\* engine's result is negative
Get_Buses(f, idx) ==
  /\ Usable(f)
  /\ LET h == ProxyCtxPtr(f)
     IN  \E e \in SetActiveBusi_Faults(h, idx) :
           LET chk   == Checked(f, RaiseFault(errNum, h, e))
               proxy == IF SetActiveBusi_Result(h, idx) < 0 THEN "nil" ELSE "ActiveBus"
           IN  /\ activeBus' = [activeBus EXCEPT ![h] = SetActiveBusi_Engine(h, idx)]
               /\ errNum' = chk.cells
               /\ ret' = Return("Get_Buses", f, <<proxy>>, chk.err, <<idx>>)
  /\ UNCHANGED <<created, released, active, circuit, gr, heap, facades, ctx, held>>
  /\ UNCHANGED <<mainVars, strVars>>

\* ctx_Bus_Get_Name: the native name of the active bus, empty if none
ActiveBusName(h) ==
  IF activeBus[h] \in Buses(h) THEN CString(BusName(activeBus[h])) ELSE <<0>>

\* IBus.Name: C.GoString of the engine's string, then the check
Bus_Name(f) ==
  /\ Usable(f)
  /\ \E e \in CircuitFaults(ProxyCtxPtr(f)) :
       LET h      == ProxyCtxPtr(f)
           cs     == IF e = 0 THEN ActiveBusName(h) ELSE <<0>>
           chk    == Checked(f, RaiseFault(errNum, h, e))
       IN  /\ errNum' = chk.cells
           /\ ret' = Return("Bus.Name", f, <<GoString(cs)>>, chk.err, cs)
  /\ UNCHANGED <<created, released, active, circuit, gr, heap, facades, ctx, held>>
  /\ UNCHANGED <<mainVars, strVars, activeBus>>

(***************************************************************************)
(* Compatibility flags: IDSS.Get_CompatFlags and IDSS.Set_CompatFlags.     *)
(***************************************************************************)
\* bit flags 0x1, 0x2, 0x4 and none
CompatFlagValues == {0, 1, 2, 4}

\* IDSS.Get_CompatFlags: the engine reads the flags; then the check
Get_CompatFlags(f) ==
  /\ Usable(f)
  /\ LET h   == ProxyCtxPtr(f)
         raw == compatFlags[FlagsCell(h)]
         chk == Checked(f, errNum)
     IN  /\ errNum' = chk.cells
         /\ ret' = Return("Get_CompatFlags", f, <<raw>>, chk.err, raw)
  /\ UNCHANGED <<created, released, active, circuit, gr, heap, facades, ctx, held>>
  /\ UNCHANGED <<mainVars, compatFlags>>

\* IDSS.Set_CompatFlags: the engine stores the flags, or rejects them with a
\* fault; then the check
Set_CompatFlags(f, value) ==
  /\ Usable(f)
  /\ \E fault \in Faults :
       LET h   == ProxyCtxPtr(f)
           chk == Checked(f, RaiseFault(errNum, h, fault))
       IN  /\ compatFlags' = IF fault = 0
                               THEN [compatFlags EXCEPT ![FlagsCell(h)] = value]
                               ELSE compatFlags
           /\ errNum' = chk.cells
           /\ ret' = Return("Set_CompatFlags", f, <<>>, chk.err, value)
  /\ UNCHANGED <<created, released, active, circuit, gr, heap, facades, ctx, held>>
  /\ UNCHANGED mainVars

(***************************************************************************)
(* IDSS.Init, statement by statement.                                      *)
(***************************************************************************)
Stmt(op) == [op |-> op, path |-> <<>>]
ProxyStmts == [i \in 1..Len(ProxyInits) |-> [op |-> "InitCommon", path |-> ProxyInits[i]]]
ContextStmts == <<Stmt("ctx.ctxPtr"), Stmt("errorNumberPtr"), Stmt("GetGRPointers")>>

\* an Init that initialises the proxies before the context buffers
IDSS_Init_Program_ProxiesFirst ==
  <<Stmt("nil"), Stmt("new"), Stmt("dss.ctxPtr")>> \o ProxyStmts \o ContextStmts

\* IDSS.Init: the nil test, dss.ctx = &DSSContextPtrs{}, dss.ctxPtr = ctxPtr,
\* dss.ctx.Init(dss.ctxPtr), then the proxies
IDSS_Init_Program ==
  <<Stmt("nil"), Stmt("new"), Stmt("dss.ctxPtr")>> \o ContextStmts \o ProxyStmts

Done == Len(IDSS_Init_Program) + 1
At_(op) == ini.pc \in 1..Len(IDSS_Init_Program) /\ IDSS_Init_Program[ini.pc].op = op

InitFrame ==
  UNCHANGED <<created, released, active, circuit, gr, heap, facades, ctx, ret, held>>

\* InitCommon: common.ctx = ctx; common.ctxPtr = ctx.ctxPtr
InitCommon(id, c) == [ctx |-> id, ctxPtr |-> c.ctxPtr]

\* what Init is called with: nil, the prime handle, a handle of ctx_New
InitArgs == {Null, Prime, Prime + 1}

\* dss.Init(ctxPtr) on a new IDSS value, with nil or with a handle
Init_Call(arg) ==
  /\ ini.pc \in {0, Done}
  /\ ini.id < MaxFacades
  /\ ini' = [NoInit EXCEPT !.pc = 1, !.arg = arg, !.ctxPtr = arg, !.id = ini.id + 1]
  /\ UNCHANGED errNum
  /\ InitFrame

\* if ctxPtr == nil { ctxPtr = C.ctx_Get_Prime(); C.ctx_DSS_Start(ctxPtr, 0) }
Init_Nil ==
  /\ At_("nil")
  /\ IF ini.ctxPtr = Null
       THEN \E e \in Faults :
              /\ errNum' = DSS_Start(errNum, Prime, e)
              /\ ini' = [ini EXCEPT !.pc = @ + 1, !.ctxPtr = Prime,
                                    !.started = @ \cup {Prime}]
       ELSE /\ ini' = [ini EXCEPT !.pc = @ + 1]
            /\ UNCHANGED errNum
  /\ InitFrame

\* dss.ctx = &DSSContextPtrs{}
Init_New ==
  /\ At_("new")
  /\ ini' = [ini EXCEPT !.pc = @ + 1, !.dss.ctx = ini.id, !.cobj = NoCtx]
  /\ UNCHANGED errNum
  /\ InitFrame

\* dss.ctxPtr = ctxPtr
Init_CtxPtr ==
  /\ At_("dss.ctxPtr")
  /\ ini' = [ini EXCEPT !.pc = @ + 1, !.dss.ctxPtr = ini.ctxPtr]
  /\ UNCHANGED errNum
  /\ InitFrame

\* DSSContextPtrs.Init: ctx.ctxPtr = ctxPtr; C.ctx_DSS_Start(ctxPtr, 0)
Ctx_Init_Start ==
  /\ At_("ctx.ctxPtr")
  /\ \E e \in Faults :
       /\ errNum' = DSS_Start(errNum, ini.dss.ctxPtr, e)
       /\ ini' = [ini EXCEPT !.pc = @ + 1, !.cobj.ctxPtr = ini.dss.ctxPtr,
                             !.started = @ \cup {ini.dss.ctxPtr}]
  /\ InitFrame

\* DSSContextPtrs.Init: ctx.errorNumberPtr = C.ctx_Error_Get_NumberPtr(ctxPtr)
Ctx_Init_NumberPtr ==
  /\ At_("errorNumberPtr")
  /\ ini' = [ini EXCEPT !.pc = @ + 1,
                        !.cobj.errorNumberPtr =
                           DSSContextPtrs_Init(ini.cobj.ctxPtr).errorNumberPtr]
  /\ UNCHANGED errNum
  /\ InitFrame

\* DSSContextPtrs.Init: C.ctx_DSS_GetGRPointers(ctxPtr, ...)
Ctx_Init_GRPointers ==
  /\ At_("GetGRPointers")
  /\ ini' = [ini EXCEPT !.pc = @ + 1,
                        !.cobj.grPtr = DSSContextPtrs_Init(ini.cobj.ctxPtr).grPtr]
  /\ UNCHANGED errNum
  /\ InitFrame

\* <proxy>.InitCommon(ctx)
Proxy_InitCommon ==
  /\ At_("InitCommon")
  /\ ini' = [ini EXCEPT !.pc = @ + 1,
                        !.proxies =
                           Append(@, [path   |-> IDSS_Init_Program[ini.pc].path,
                                      common |-> InitCommon(ini.dss.ctx, ini.cobj)])]
  /\ UNCHANGED errNum
  /\ InitFrame

(***************************************************************************)
(* Goroutines.  Each runs Capacitors.Set_idx, Capacitors.Get_idx and       *)
(* Circuit.AllBusDistances on its facade.  Nothing in DSSContextPtrs or    *)
(* the proxies is a lock: a step of a goroutine is the next engine call or *)
(* the next access to the error cell or the scratch buffer, whatever the   *)
(* other goroutine is doing.                                               *)
(***************************************************************************)
\* a binding that would serialise the operations on one handle
MayStep_Locked(t) ==
  \A u \in Threads \ {t} :
    (thr[u].f # 0 /\ ProxyCtxPtr(thr[u].f) = ProxyCtxPtr(thr[t].f))
      => thr[u].pc \in {"idle", "sel", "rd", "arr", "done"}
         \/ thr[t].pc \notin {"sel", "rd", "arr"}

\* DSSContextPtrs and ICommonData hold no mutex: a goroutine that was started
\* and has not finished can take its next step
MayStep(t) == thr[t].pc \notin {"idle", "done"}

\* the index goroutine t selects and the data its engine call produces
SelOf(t) == IF t <= NumEntities THEN t ELSE NumEntities
FillOf(t) == [i \in 1..t |-> t - 1]

\* DSSError, step by step: the test of the cell
DSSError_Test(c, en) == en[c.errorNumberPtr] # 0
\* DSSError: fmt.Errorf reads the cell again and asks the engine for the
\* description
DSSError_Format(c, en) ==
  EngineError(en[c.errorNumberPtr], Error_Get_Description(en, c.ctxPtr))
\* DSSError: *ctx.errorNumberPtr = 0
DSSError_Reset(c, en) == [en EXCEPT ![c.errorNumberPtr] = 0]

\* go func() { ... }() on facade 1 and on facade f2
Go(f2) ==
  /\ \A t \in Threads : thr[t].pc = "idle"
  /\ Usable(1) /\ Usable(f2)
  /\ thr' = [t \in Threads |->
               [NoThread EXCEPT !.f = IF t = 1 THEN 1 ELSE f2, !.pc = "sel"]]
  /\ UNCHANGED <<created, released, errNum, active, circuit, gr, heap, facades, ctx,
                 ret, held>>

\* the call of a scalar operation goes well or raises a fault
ScalarFaults == {0, MaxErr}

\* Set_idx: C.ctx_Capacitors_Set_idx
T_Set_idx(t) ==
  /\ MayStep(t) /\ thr[t].pc = "sel"
  /\ \E fault \in ScalarFaults :
       LET h == ProxyCtxPtr(thr[t].f)
       IN  /\ active' = IF fault = 0 THEN [active EXCEPT ![h] = SelOf(t)] ELSE active
           /\ errNum' = RaiseFault(errNum, h, fault)
           /\ thr' = [thr EXCEPT ![t].pc = "sel_err",
                                 ![t].sel = IF fault = 0 THEN SelOf(t) ELSE 0]
  /\ UNCHANGED <<created, released, circuit, gr, heap, facades, ctx, ret, held>>

\* Get_idx: C.ctx_Capacitors_Get_idx
T_Get_idx(t) ==
  /\ MayStep(t) /\ thr[t].pc = "rd"
  /\ \E e \in ScalarFaults :
       LET h == ProxyCtxPtr(thr[t].f)
       IN  /\ errNum' = RaiseFault(errNum, h, e)
           /\ thr' = [thr EXCEPT ![t].pc = "rd_err",
                                 ![t].read = IF e = 0 THEN active[h] ELSE 0 - 1]
  /\ UNCHANGED <<created, released, active, circuit, gr, heap, facades, ctx, ret, held>>

\* AllBusDistances: C.ctx_Circuit_Get_AllBusDistances_GR
T_AllBusDistances(t) ==
  /\ MayStep(t) /\ thr[t].pc = "arr"
  /\ \E e \in Faults :
       LET h == ProxyCtxPtr(thr[t].f)
       IN  /\ gr' = GR_Fill(gr, h, "PDouble", FillOf(t))
           /\ errNum' = RaiseFault(errNum, h, e)
           /\ thr' = [thr EXCEPT ![t].pc = "arr_err", ![t].prod = FillOf(t),
                                 ![t].raised = e]
  /\ UNCHANGED <<created, released, active, circuit, heap, facades, ctx, ret, held>>

\* where an operation goes on after its DSSError
AfterError(p) ==
  CASE p \in {"sel_err", "sel_fmt"} -> "rd"
    [] p \in {"rd_err", "rd_fmt"}   -> "arr"
    [] OTHER                        -> "cnt"

\* DSSError: if (*ctx.errorNumberPtr) != 0
T_DSSError_Test(t) ==
  /\ MayStep(t) /\ thr[t].pc \in {"sel_err", "rd_err", "arr_err"}
  /\ thr' = [thr EXCEPT ![t].pc =
               IF DSSError_Test(ctx[thr[t].f], errNum)
                 THEN (CASE thr[t].pc = "sel_err" -> "sel_fmt"
                         [] thr[t].pc = "rd_err"  -> "rd_fmt"
                         [] OTHER                 -> "arr_fmt")
                 ELSE AfterError(thr[t].pc)]
  /\ UNCHANGED <<created, released, errNum, active, circuit, gr, heap, facades, ctx,
                 ret, held>>

\* DSSError: err_result := fmt.Errorf(...); *ctx.errorNumberPtr = 0
T_DSSError_Reset(t) ==
  /\ MayStep(t) /\ thr[t].pc \in {"sel_fmt", "rd_fmt", "arr_fmt"}
  /\ errNum' = DSSError_Reset(ctx[thr[t].f], errNum)
  /\ thr' = [thr EXCEPT ![t].pc = AfterError(thr[t].pc),
                        ![t].err = IF thr[t].pc = "arr_fmt"
                                     THEN DSSError_Format(ctx[thr[t].f], errNum)
                                     ELSE @]
  /\ UNCHANGED <<created, released, active, circuit, gr, heap, facades, ctx, ret, held>>

\* GetFloat64ArrayGR: res_cnt := (*ctx.CountPtr_PDouble)[0]
T_Count(t) ==
  /\ MayStep(t) /\ thr[t].pc = "cnt"
  /\ thr' = [thr EXCEPT ![t].pc = "copy",
                        ![t].cnt = CountOf(ctx[thr[t].f], gr, "PDouble")]
  /\ UNCHANGED <<created, released, errNum, active, circuit, gr, heap, facades, ctx,
                 ret, held>>

\* GetFloat64ArrayGR: copy(result, cdata); an element past the end of what
\* the buffer holds by now is whatever is there
T_Copy(t) ==
  /\ MayStep(t) /\ thr[t].pc = "copy"
  /\ LET data == DataOf(ctx[thr[t].f], gr, "PDouble")
     IN  \E junk \in (IF thr[t].cnt <= Len(data) THEN {0} ELSE Vals) :
           thr' = [thr EXCEPT ![t].pc = "done",
                              ![t].res = [k \in 1..thr[t].cnt |-> At(data, k, junk)]]
  /\ UNCHANGED <<created, released, errNum, active, circuit, gr, heap, facades, ctx,
                 ret, held>>

(***************************************************************************)
(* The caller keeps an array result while it goes on calling the engine,   *)
(* as the README example does with names, vmag and cvolts.                 *)
(***************************************************************************)
ArrayKind(op) ==
  IF op = "Float64Array" THEN "PDouble"
  ELSE IF op = "Int32Array" THEN "PInteger"
  ELSE IF op = "UInt8Array" THEN "PByte" ELSE "none"

Retain ==
  /\ ArrayKind(ret.op) # "none"
  /\ held' = [kind |-> ArrayKind(ret.op), backing |-> ret.backing,
              ptr |-> ctx[ret.f].grPtr, data |-> ret.val]
  /\ held' # held
  /\ UNCHANGED <<created, released, errNum, active, circuit, gr, heap, facades, ctx, ret>>
  /\ UNCHANGED mainVars

\* what the caller reads in a kept result now
Read(x) ==
  IF x.backing = "host" THEN x.data
  ELSE [i \in 1..Len(x.data) |-> At(gr[x.ptr][x.backing].data, i, -1)]

(***************************************************************************)
(* Commands and the circuit they create.                                   *)
(***************************************************************************)
\* IText.Set_Command("new circuit.<n>"): the instance gets a new circuit and
\* no entity of it is active yet
Set_Command(f, n) ==
  /\ Usable(f)
  /\ \E e \in Faults :
       LET h   == ProxyCtxPtr(f)
           chk == Checked(f, RaiseFault(errNum, h, e))
       IN  /\ circuit' = IF e = 0 THEN [circuit EXCEPT ![h] = n] ELSE circuit
           /\ active' = IF e = 0 THEN [active EXCEPT ![h] = 0] ELSE active
           /\ errNum' = chk.cells
           /\ ret' = Return("Set_Command", f, <<>>, chk.err, 0)
  /\ UNCHANGED <<created, released, gr, heap, facades, ctx, held>>
  /\ UNCHANGED mainVars

\* ICircuit.Name: the name of the active circuit
Name(f) ==
  /\ Usable(f)
  /\ \E e \in Faults :
       LET h   == ProxyCtxPtr(f)
           raw == IF e = 0 THEN circuit[h] ELSE 0
           chk == Checked(f, RaiseFault(errNum, h, e))
       IN  /\ errNum' = chk.cells
           /\ ret' = Return("Name", f, <<raw>>, chk.err, raw)
  /\ UNCHANGED <<created, released, active, circuit, gr, heap, facades, ctx, held>>
  /\ UNCHANGED mainVars

\* a command that builds a circuit: all of its Lines are enabled
NewCircuit(f, n) ==
  /\ Set_Command(f, n)
  /\ enabled' = IF circuit' # circuit \/ ret'.err = NoError
                THEN [enabled EXCEPT ![ProxyCtxPtr(f)] = 1..NumEntities]
                ELSE enabled
  /\ UNCHANGED iterateDisabled

\* a command that builds a circuit: no bus of it is active yet
BusCircuit(f, n) ==
  /\ Set_Command(f, n)
  /\ activeBus' = IF circuit' # circuit \/ ret'.err = NoError
                  THEN [activeBus EXCEPT ![ProxyCtxPtr(f)] = 0]
                  ELSE activeBus
  /\ UNCHANGED strVars

(***************************************************************************)
(* The active circuit element.  Activating a Line through the Lines         *)
(* interface makes it the active circuit element too; activating a circuit  *)
(* element by its full name leaves the Lines list where it was.  What the   *)
(* Lines interface then acts on depends on the ActiveLine flag.             *)
(***************************************************************************)
\* the circuit elements of a circuit: its Lines and one element of another
\* class, numbered after them
CktElements(h) == IF circuit[h] = 0 THEN {} ELSE 1..(NumEntities + 1)

\* "Full Name of Active Circuit Element": a class code, then the name
FullName(e) == IF e \in 1..NumEntities THEN <<1>> \o LineName(e) ELSE <<2, 1>>

\* the circuit elements with the given native full name
ElementsNamed(h, cs) == {e \in CktElements(h) : FullName(e) = GoString(cs)}

\* the full names a caller passes: those of the elements and one of no element
FullNameArgs == {FullName(e) : e \in 1..(NumEntities + 1)} \cup {<<3, 1>>}

\* the flag values a caller of this part sets: none, and ActiveLine
ActiveLineValues == {0, DSSCompatFlags_ActiveLine}

\* a command that builds a circuit: no circuit element of it is active yet
CktCircuit(f, n) ==
  /\ Set_Command(f, n)
  /\ cktElement' = IF circuit' # circuit \/ ret'.err = NoError
                   THEN [cktElement EXCEPT ![ProxyCtxPtr(f)] = 0]
                   ELSE cktElement
  /\ UNCHANGED compatFlags

\* a selection of the Lines interface: where it lands on a Line, that Line
\* becomes the active circuit element of the instance
LineSelected(f, selection, landed) ==
  /\ selection
  /\ cktElement' = IF landed
                   THEN [cktElement EXCEPT ![ProxyCtxPtr(f)] = active'[ProxyCtxPtr(f)]]
                   ELSE cktElement
  /\ UNCHANGED compatFlags

\* ICircuit.SetActiveElement: C.CString, the engine call, the check, C.free;
\* the result is the zero-based index of the element, -1 if none has the name
SetActiveElement(f, FullName_) ==
  /\ Usable(f)
  /\ LET h          == ProxyCtxPtr(f)
         FullName_c == CString(FullName_)
         named      == ElementsNamed(h, FullName_c)
         raw        == IF named # {} THEN Least(named) - 1 ELSE 0 - 1
     IN  \E e \in (IF named # {} THEN {0} ELSE 1..MaxErr) :
           LET chk == Checked(f, RaiseFault(errNum, h, e))
           IN  /\ cktElement' = IF e = 0 THEN [cktElement EXCEPT ![h] = Least(named)]
                                ELSE cktElement
               /\ errNum' = chk.cells
               /\ ret' = Return("SetActiveElement", f, <<raw>>, chk.err, FullName_)
  /\ UNCHANGED <<created, released, active, circuit, gr, heap, facades, ctx, held>>
  /\ UNCHANGED <<mainVars, compatFlags>>

\* ctx_CktElement_Get_Name: the native full name of the active circuit
\* element, empty if none
ActiveCktElementName(h) ==
  IF cktElement[h] \in CktElements(h) THEN CString(FullName(cktElement[h])) ELSE <<0>>

\* ICktElement.Name: C.GoString of the engine's string, then the check
CktElement_Name(f) ==
  /\ Usable(f)
  /\ \E e \in CircuitFaults(ProxyCtxPtr(f)) :
       LET h      == ProxyCtxPtr(f)
           cs     == IF e = 0 THEN ActiveCktElementName(h) ELSE <<0>>
           result == GoString(cs)
           chk    == Checked(f, RaiseFault(errNum, h, e))
       IN  /\ errNum' = chk.cells
           /\ ret' = Return("CktElement.Name", f, <<result>>, chk.err, cs)
  /\ UNCHANGED <<created, released, active, circuit, gr, heap, facades, ctx, held>>
  /\ UNCHANGED <<mainVars, compatFlags, cktElement>>

(***************************************************************************)
(* Contexts.                                                               *)
(***************************************************************************)
\* ctx_New: a handle of a new instance, never one handed out before, or null
ctx_New == {Null} \cup
  (LET unused == Handles \ ({Prime} \cup created)
   IN  IF unused = {} THEN {}
       ELSE {CHOOSE h \in unused : \A k \in unused : h <= k})

\* dssNew := &IDSS{}: a new facade value
NewFacade == CHOOSE f \in Facades \ facades : \A k \in Facades \ facades : f <= k

\* a NewContext that initialises the new facade with the caller's handle
NewContext_InitArg_Callers(newCtxPtr, callerCtxPtr) == callerCtxPtr

\* NewContext: the handle dssNew.Init is given
NewContext_InitArg(newCtxPtr, callerCtxPtr) == newCtxPtr

\* NewContext: the error returned
NewContext_Error(newCtxPtr) == IF newCtxPtr = Null THEN AllocError ELSE NoError

\* IDSS.NewContext, but for the variables of the calling program
NewContextOp(f) ==
  /\ f \in facades
  /\ Facades \ facades # {}
  /\ \E newCtxPtr \in ctx_New :
     \E e1 \in (IF newCtxPtr = Null THEN Faults ELSE {0}), e2 \in Faults :
       LET arg == NewContext_InitArg(newCtxPtr, ctx[f].ctxPtr)
       IN  /\ created' = IF newCtxPtr = Null THEN created ELSE created \cup {newCtxPtr}
           /\ errNum' = IDSS_Init_Cells(errNum, arg, e1, e2)
           /\ facades' = facades \cup {NewFacade}
           /\ ctx' = [ctx EXCEPT ![NewFacade] = DSSContextPtrs_Init(IDSS_Init_Handle(arg))]
           /\ ret' = Return("NewContext", f, <<NewFacade>>, NewContext_Error(newCtxPtr),
                            newCtxPtr)
  /\ UNCHANGED <<released, active, circuit, gr, heap, held>>

NewContext(f) == NewContextOp(f) /\ UNCHANGED mainVars

\* an Init(nil) that gives every facade an engine instance of its own
IDSS_Init_Nil_OwnInstance ==
  /\ Facades \ facades # {}
  /\ ctx_New # {Null}
  /\ \E h \in ctx_New \ {Null} :
       /\ created' = created \cup {h}
       /\ facades' = facades \cup {NewFacade}
       /\ ctx' = [ctx EXCEPT ![NewFacade] = DSSContextPtrs_Init(h)]
       /\ ret' = Return("Init", NewFacade, <<>>, NoError, Null)
  /\ UNCHANGED <<released, errNum, active, circuit, gr, heap, held>>
  /\ UNCHANGED mainVars

\* dss2 := altdss.IDSS{}; dss2.Init(nil): one more facade of the prime
\* instance, which is started again, twice, without a check
IDSS_Init_Nil ==
  /\ Facades \ facades # {}
  /\ \E e1, e2 \in Faults :
       /\ errNum' = IDSS_Init_Cells(errNum, Null, e1, e2)
       /\ facades' = facades \cup {NewFacade}
       /\ ctx' = [ctx EXCEPT ![NewFacade] = DSSContextPtrs_Init(IDSS_Init_Handle(Null))]
       /\ ret' = Return("Init", NewFacade, <<>>, NoError, Null)
  /\ UNCHANGED <<created, released, active, circuit, gr, heap, held>>
  /\ UNCHANGED mainVars

\* IDSS.Dispose: releases the engine-side instance of the facade
DisposeOp(f) ==
  /\ f \in facades
  /\ released' = [released EXCEPT ![ctx[f].ctxPtr] = IF @ < 2 THEN @ + 1 ELSE @]
  /\ ret' = Return("Dispose", f, <<>>, NoError, ctx[f].ctxPtr)
  /\ UNCHANGED <<created, errNum, active, circuit, gr, heap, facades, ctx, held>>

(***************************************************************************)
(* examples/ctx_disposal.go: the create/dispose loop.                      *)
(***************************************************************************)
InitMain == InitBase /\ pc = "sleep"

\* time.Sleep(1 * time.Millisecond)
Main_Sleep ==
  /\ pc = "sleep"
  /\ pc' = "new"
  /\ UNCHANGED <<created, released, errNum, active, circuit, gr, heap, facades, ctx,
                 ret, held, iter, ctxVar, errVar>>

\* ctx, err := dss.NewContext()
Main_NewContext ==
  /\ pc = "new"
  /\ NewContextOp(1)
  /\ ctxVar' = ret'.val[1]
  /\ errVar' = ret'.err
  /\ pc' = "dispose"
  /\ UNCHANGED iter

\* a loop body without the Dispose call
Main_Dispose_Missing ==
  /\ pc = "dispose"
  /\ pc' = "check"
  /\ UNCHANGED <<created, released, errNum, active, circuit, gr, heap, facades, ctx,
                 ret, held, iter, ctxVar, errVar>>

\* ctx.Dispose()
Main_Dispose ==
  /\ pc = "dispose"
  /\ DisposeOp(ctxVar)
  /\ pc' = "check"
  /\ UNCHANGED <<iter, ctxVar, errVar>>

\* if err != nil { log.Fatal(err) }
Main_Check ==
  /\ pc = "check"
  /\ pc' = IF errVar # NoError THEN "fatal" ELSE "gc"
  /\ UNCHANGED <<created, released, errNum, active, circuit, gr, heap, facades, ctx,
                 ret, held, iter, ctxVar, errVar>>

\* runtime.GC() and the loop step: the facade of this iteration is garbage
Main_GC ==
  /\ pc = "gc"
  /\ facades' = facades \ {ctxVar}
  /\ ctx' = [ctx EXCEPT ![ctxVar] = NoCtx]
  /\ ctxVar' = 0
  /\ iter' = iter + 1
  /\ pc' = IF iter + 1 < MaxIter THEN "sleep" ELSE "done"
  /\ UNCHANGED <<created, released, errNum, active, circuit, gr, heap, ret, held, errVar>>

(***************************************************************************)
(* Specifications.                                                         *)
(***************************************************************************)
\* marshalling: the decoding of the scratch buffers and of string arrays
NextGR ==
  /\ \E f \in Facades :
       \/ Get_idx(f)
       \/ Float64Array(f, DoubleFills)
       \/ ComplexArray(f, DoubleFills)
       \/ ComplexSimple(f, DoubleFills)
       \/ StringArray(f, StringFills)
  /\ UNCHANGED extVars

SpecGR == InitPrime /\ [][NextGR]_vars

\* every kind of proxy operation and the Error Channel
NextProxy ==
  /\ \E f \in Facades :
       \/ Get_idx(f)
       \/ \E value \in 0..(NumEntities + 1) : Set_idx(f, value)
       \/ First(f)
       \/ DSSError(f)
       \/ Float64Array(f, DefaultResults)
       \/ ComplexArray(f, DefaultResults)
       \/ ComplexSimple(f, DefaultResults)
       \/ Int32Array(f, DefaultResults)
       \/ UInt8Array(f, DefaultResults)
       \/ StringArray(f, {<<>>})
  /\ UNCHANGED extVars

SpecProxy == InitPrime /\ [][NextProxy]_vars

\* results copied out of engine memory and kept by the caller
NextCopy ==
  /\ \E f \in Facades :
       \/ Float64Array(f, ShortFills)
       \/ Int32Array(f, IntFills)
       \/ UInt8Array(f, ByteFills)
       \/ Retain
  /\ UNCHANGED extVars

SpecCopy == InitPrime /\ [][NextCopy]_vars

\* several contexts in one process
NextCtx ==
  /\ \E f \in Facades :
       \/ NewContext(f)
       \/ \E n \in 1..NumCircuits : Set_Command(f, n)
       \/ Name(f)
       \/ \E value \in 1..NumEntities : Set_idx(f, value)
  /\ UNCHANGED extVars

SpecCtx == InitPrime /\ [][NextCtx]_vars

\* several facades made by Init(nil) in one process
NextShared ==
  /\ \/ IDSS_Init_Nil
     \/ \E f \in Facades :
          \/ \E n \in 1..NumCircuits : Set_Command(f, n)
          \/ Name(f)
          \/ \E value \in 0..(NumEntities + 1) : Set_idx(f, value)
          \/ Get_idx(f)
          \/ Error_Number(f)
  /\ UNCHANGED extVars

SpecShared == InitPrime /\ [][NextShared]_vars

\* the ctx_disposal program
NextMain ==
  /\ \/ Main_Sleep
     \/ Main_NewContext
     \/ Main_Dispose
     \/ Main_Check
     \/ Main_GC
  /\ UNCHANGED extVars

SpecMain == InitMain /\ [][NextMain]_vars

\* native strings passed to and returned by the engine
NextStr ==
  /\ \E f \in Facades :
       \/ \E value \in HostArrays : Set_BusNames(f, value)
       \/ Get_BusNames(f)
       \/ \E value \in HostStrings : Set_Bus1(f, value)
  /\ UNCHANGED <<enumVars, loopVars, busVars, concVars, initVars, flagVars, cktVars>>

SpecStr == InitPrime /\ [][NextStr]_vars

\* the buses of a circuit
NextBus ==
  /\ \E f \in Facades :
       \/ \E n \in 1..NumCircuits : BusCircuit(f, n)
       \/ \E name \in NameArgs : SetActiveBus(f, name)
       \/ \E name \in NameArgs : get_Buses(f, name)
       \/ \E idx \in BusIndexArgs : Get_Buses(f, idx)
       \/ Bus_Name(f)
  /\ UNCHANGED <<enumVars, loopVars, concVars, initVars, flagVars, cktVars>>

SpecBus == InitPrime /\ [][NextBus]_vars

\* the Error interface next to operations that raise and check errors
NextErr ==
  /\ \E f \in Facades :
       \/ NewContext(f)
       \/ \E value \in 0..(NumEntities + 1) : Set_idx(f, value)
       \/ Get_idx(f)
       \/ Error_Number(f)
       \/ \E value \in NumericArgs : Set_States(f, value)
  /\ UNCHANGED extVars

SpecErr == InitPrime /\ [][NextErr]_vars

\* Lines and circuit elements of one context, under both values of the
\* ActiveLine flag
NextCkt ==
  /\ \E f \in facades :
       LET h == ProxyCtxPtr(f)
       IN  \/ \E n \in 1..NumCircuits : CktCircuit(f, n)
           \/ \E value \in NameArgs :
                LineSelected(f, Lines_Set_Name(f, value), LinesNamed(h, CString(value)) # {})
           \/ \E value \in 0..(NumEntities + 1) :
                LineSelected(f, Lines_Set_idx(f, value), IndexValid(h, value))
           \/ LineSelected(f, Lines_First(f), Iterable(h) # {})
           \/ LineSelected(f, Lines_Next(f), {i \in Iterable(h) : i > active[h]} # {})
           \/ \E FullName_ \in FullNameArgs : SetActiveElement(f, FullName_)
           \/ CktElement_Name(f)
           \/ Lines_Get_Name(f) /\ UNCHANGED <<compatFlags, cktElement>>
           \/ \E value \in ActiveLineValues : Set_CompatFlags(f, value) /\ UNCHANGED cktElement
  /\ UNCHANGED <<strVars, enumVars, loopVars, busVars, concVars, initVars>>

SpecCkt == InitPrime /\ [][NextCkt]_vars

\* the compatibility flags, through the contexts of a process
NextFlags ==
  /\ \E f \in Facades :
       \/ NewContext(f) /\ UNCHANGED compatFlags
       \/ Get_CompatFlags(f)
       \/ \E value \in CompatFlagValues : Set_CompatFlags(f, value)
  /\ UNCHANGED <<strVars, enumVars, loopVars, busVars, concVars, initVars, cktVars>>

SpecFlags == InitPrime /\ [][NextFlags]_vars

\* IDSS.Init on new IDSS values, with nil and with handles
NextInit ==
  /\ \/ \E arg \in InitArgs : Init_Call(arg)
     \/ Init_Nil
     \/ Init_New
     \/ Init_CtxPtr
     \/ Ctx_Init_Start
     \/ Ctx_Init_NumberPtr
     \/ Ctx_Init_GRPointers
     \/ Proxy_InitCommon
  /\ UNCHANGED <<mainVars, strVars, enumVars, loopVars, busVars, concVars, flagVars, cktVars>>

SpecInit == InitPrime /\ [][NextInit]_vars

\* the engine function the step at a position calls, if it calls one
EngineCallAt(p) ==
  CASE p = "sel" -> "ctx_Capacitors_Set_idx"
    [] p = "rd"  -> "ctx_Capacitors_Get_idx"
    [] p = "arr" -> "ctx_Circuit_Get_AllBusDistances_GR"
    [] p \in {"sel_fmt", "rd_fmt", "arr_fmt"} -> "ctx_Error_Get_Description"
    [] OTHER -> "none"

\* the positions of AllBusDistances after the engine call that fills the
\* buffer and before copy(result, cdata) has completed
BeforeCopyOut == {"arr_err", "arr_fmt", "cnt", "copy"}

\* the next step of goroutine t
T_Step(t) ==
  \/ T_Set_idx(t)
  \/ T_Get_idx(t)
  \/ T_AllBusDistances(t)
  \/ T_DSSError_Test(t)
  \/ T_DSSError_Reset(t)
  \/ T_Count(t)
  \/ T_Copy(t)

\* two goroutines, on one context or on two
NextConc ==
  /\ \/ /\ \A t \in Threads : thr[t].pc = "idle"
        /\ facades = {1}
        /\ NewContextOp(1)
        /\ UNCHANGED thr
     \/ \E f2 \in Facades : Go(f2)
     \/ \E t \in Threads : T_Step(t)
  /\ UNCHANGED <<mainVars, strVars, enumVars, loopVars, busVars, initVars, flagVars, cktVars>>

SpecConc == InitPrime /\ [][NextConc]_vars

\* an enumerable category and a caller enumerating it
EnumSetup ==
  /\ epc = "idle"
  /\ \E f \in Facades :
       \/ \E n \in 1..NumCircuits : NewCircuit(f, n)
       \/ \E value \in BOOLEAN : Set_Enabled(f, value)
       \/ \E value \in 0..1 : Set_IterateDisabled(f, value)
       \/ (Lines_Count(f) /\ UNCHANGED enumVars)
       \/ (Lines_First(f) /\ UNCHANGED enumVars)
       \/ (Lines_Next(f) /\ UNCHANGED enumVars)
       \/ (Lines_Get_idx(f) /\ UNCHANGED enumVars)
       \/ (\E value \in 0..(NumEntities + 1) : Lines_Set_idx(f, value) /\ UNCHANGED enumVars)
       \/ (\E value \in NameArgs : Lines_Set_Name(f, value) /\ UNCHANGED enumVars)
       \/ (Lines_Get_Name(f) /\ UNCHANGED enumVars)
       \/ (Lines_AllNames(f) /\ UNCHANGED enumVars)
  /\ UNCHANGED <<strVars, loopVars, busVars, concVars, initVars, flagVars, cktVars>>

EnumLoop ==
  /\ \/ Enum_Start
     \/ Enum_First
     \/ Enum_Next
     \/ Enum_Done
  /\ UNCHANGED <<strVars, busVars, concVars, initVars, flagVars, cktVars>>

NextEnum == EnumSetup \/ EnumLoop

\* the loop of the caller runs on once it has started
SpecEnum == InitPrime /\ [][NextEnum]_vars /\ WF_vars(EnumLoop)

(***************************************************************************)
(* Properties.                                                             *)
(***************************************************************************)
\* the error-number cell and the scratch buffers the facade of the last
\* operation reads
RetCell == errNum[ctx[ret.f].errorNumberPtr]
RetData(kind) == gr[ctx[ret.f].grPtr][kind].data

\* what is read through the proxies of facade b: the error its next check
\* returns, the active entity, the circuit and the scratch buffers
Observed(b) ==
  <<errNum[ctx[b].errorNumberPtr], active[ctx[b].ctxPtr], circuit[ctx[b].ctxPtr],
    gr[ctx[b].grPtr]>>

\* an operation issued through facade a: selecting an entity, running a
\* command, reading the circuit name, each of which may trigger a fault
IssuedThrough(a) ==
  \/ \E value \in 1..NumEntities : Set_idx(a, value)
  \/ \E n \in 1..NumCircuits : Set_Command(a, n)
  \/ Name(a)

\* C1: context isolation. For every pair of facades A and B (the prime facade
\* and one returned by NewContext, or two returned by NewContext) an operation
\* issued through A leaves everything read through B's proxies unchanged.
C1_Isolation ==
  [][\A a \in facades : \A b \in facades \ {a} :
       IssuedThrough(a) => Observed(b)' = Observed(b)]_vars

\* C2: DSSError reads and clears. With the cell nonzero it returns an error
\* embedding that number and the engine's description and leaves the cell at
\* zero; with the cell zero it returns nil and changes nothing; so a check that
\* directly follows a check that returned an error returns nil.
C2_ReadAndClear ==
  [][\A f \in Facades :
       DSSError(f) =>
         LET p == ctx[f].errorNumberPtr
         IN  /\ errNum'[p] = 0
             /\ errNum[p] # 0 =>
                   /\ ret'.err.kind = "DSSError#"
                   /\ ret'.err.num = errNum[p]
                   /\ ret'.err.desc = Error_Get_Description(errNum, ctx[f].ctxPtr)
             /\ errNum[p] = 0 => ret'.err = NoError /\ errNum' = errNum
             /\ (ret.op = "DSSError" /\ ret.f = f /\ ret.err # NoError) =>
                   ret'.err = NoError]_vars

\* C2 witness: a direct check found the cell nonzero, returned the error and
\* left the cell at zero
C2_Witness ==
  ret.op = "DSSError" /\ ret.raw # 0 /\ ret.err.kind = "DSSError#" /\ RetCell = 0

\* C3: when a proxy operation (getter, setter, action, array getter) has
\* returned, the error-number cell of its context is zero
C3_CellZeroOnReturn == ret.op # "none" => RetCell = 0

\* C3 witness: the engine rejected a Set_idx, the setter returned the error
\* and the cell is zero
C3_Witness == ret.op = "Set_idx" /\ ret.err.kind = "DSSError#" /\ RetCell = 0

\* the zero value of what an operation returns
ZeroValue(op) ==
  IF op = "ComplexSimple" THEN <<0, 0>>
  ELSE IF op = "Get_idx" THEN <<0>> ELSE <<>>

\* C4 as claimed: a non-nil error is always paired with the zero value
C4_Original ==
  (ret.op \in {"Get_idx", "Float64Array", "ComplexArray", "ComplexSimple"}
     /\ ret.err # NoError)
    => ret.val = ZeroValue(ret.op)

\* C4 amended: only the marshalling error of the single-complex getter is
\* paired with a zeroed value; with an engine error the value is what the
\* engine left: the first count elements of the scratch buffer (array
\* getters), its pairs (complex array), the engine's return value (scalars)
C4_EngineValueOnError ==
  /\ (ret.op = "ComplexSimple" /\ ret.err = InvalidComplex) => ret.val = <<0, 0>>
  /\ (ret.op = "Float64Array" /\ ret.err # NoError) =>
        ret.val = SubSeq(RetData("PDouble"), 1, ret.cnt)
  /\ (ret.op = "ComplexArray" /\ ret.err # NoError) =>
        /\ Len(ret.val) = ret.cnt \div 2
        /\ \A k \in 1..Len(ret.val) :
             ret.val[k] = <<RetData("PDouble")[2 * k - 1], RetData("PDouble")[2 * k]>>
  /\ (ret.op = "ComplexSimple" /\ ret.err.kind = "DSSError#" /\ ret.cnt >= 2) =>
        ret.val = <<RetData("PDouble")[1], RetData("PDouble")[2]>>
  /\ (ret.op = "Get_idx" /\ ret.err # NoError) => ret.val = <<ret.raw>>

\* C4 witness: a float array getter returned an engine error together with a
\* non-empty sequence
C4_Witness ==
  ret.op = "Float64Array" /\ ret.err.kind = "DSSError#" /\ ret.val # <<>>

\* C5: NewContext returns the allocation error exactly when the engine
\* returned a null handle; otherwise the facade it returns is bound to the new
\* handle, and its handle, error cell and scratch-buffer registry are those of
\* no other facade, the one it was called on included
C5_NewContext ==
  ret.op = "NewContext" =>
    LET new == ret.val[1]
    IN  /\ ret.err = AllocError <=> ret.raw = Null
        /\ ret.err # AllocError => ret.err = NoError
        /\ ret.raw # Null =>
              /\ new \in facades /\ new # ret.f
              /\ ctx[new] = DSSContextPtrs_Init(ret.raw)
              /\ \A g \in facades \ {new} :
                   /\ ctx[g].ctxPtr # ctx[new].ctxPtr
                   /\ ctx[g].errorNumberPtr # ctx[new].errorNumberPtr
                   /\ ctx[g].grPtr # ctx[new].grPtr

\* C5 witness: the engine returned a handle and NewContext returned, without
\* error, a facade bound to it
C5_Witness ==
  /\ ret.op = "NewContext" /\ ret.raw # Null /\ ret.err = NoError
  /\ ctx[ret.val[1]].ctxPtr = ret.raw

C7_ComplexArrayDecode ==
  ret.op = "ComplexArray" =>
    /\ Len(ret.val) = ret.cnt \div 2
    /\ \A k \in 0..(Len(ret.val) - 1) :
         ret.val[k + 1] = <<RetData("PDouble")[2 * k + 1], RetData("PDouble")[2 * k + 2]>>
    /\ ret.cnt = 1 => ret.val = <<>>

\* C7 witness: the scratch buffer held [1.0] and the result is empty
C7_Witness ==
  ret.op = "ComplexArray" /\ ret.cnt = 1 /\ RetData("PDouble") = <<1>> /\ ret.val = <<>>

\* C8 as claimed: every count other than 2 gives the marshalling error, and
\* count 2 gives the complex value
C8_Original ==
  ret.op = "ComplexSimple" =>
    /\ ret.cnt # 2 => ret.err = InvalidComplex
    /\ ret.cnt = 2 => ret.val = <<RetData("PDouble")[1], RetData("PDouble")[2]>>

\* C8 amended: the Error Channel comes first. With a fault pending the getter
\* returns that engine error whatever the count; with none pending it returns
\* the marshalling error and 0 for a count other than 2, and the complex
\* value (buffer[0], buffer[1]) without error for count 2
C8_EngineErrorFirst ==
  ret.op = "ComplexSimple" =>
    /\ ret.raw # 0 => ret.err.kind = "DSSError#" /\ ret.err.num = ret.raw
    /\ (ret.raw = 0 /\ ret.cnt # 2) => ret.err = InvalidComplex /\ ret.val = <<0, 0>>
    /\ (ret.raw = 0 /\ ret.cnt = 2) =>
          /\ ret.err = NoError
          /\ ret.val = <<RetData("PDouble")[1], RetData("PDouble")[2]>>

\* C8 witness: a count other than 2 with an engine fault pending: the engine
\* error is returned, not the marshalling error
C8_Witness ==
  ret.op = "ComplexSimple" /\ ret.cnt # 2 /\ ret.raw # 0 /\ ret.err.kind = "DSSError#"

\* C9: float, integer and byte array getters return a sequence whose length
\* is slot 0 of the matching count cell and whose elements are the engine
\* buffer's; a sequence the caller kept reads the same after any later
\* engine call that refills the buffer
C9_FreshCopy ==
  /\ ArrayKind(ret.op) # "none" =>
        /\ Len(ret.val) = gr[ctx[ret.f].grPtr][ArrayKind(ret.op)].cnt
        /\ ret.val = RetData(ArrayKind(ret.op))
  /\ held.kind # "none" => Read(held) = held.data

\* C9 witness: the caller kept a result, the engine has since refilled the
\* same buffer with other data, and the kept result still reads as returned
C9_Witness ==
  /\ held.kind # "none"
  /\ held.data # <<>>
  /\ gr[held.ptr][held.kind].data # held.data
  /\ Read(held) = held.data

\* C10: after a string-array getter the host strings are the native strings,
\* and the native array and every native string the engine allocated for the
\* call have been released exactly once, with or without an engine error
C10_ReleasedOnce ==
  ret.op = "StringArray" =>
    /\ Len(ret.val) = Len(ret.raw)
    /\ \A i \in 1..Len(ret.val) : Append(ret.val[i], 0) = ret.raw[i]
    /\ \A b \in Blocks : heap[b] = IF b \in ret.blk THEN 1 ELSE -1

\* C10 witness: the engine reported an error and returned a full array; all
\* of its blocks were released once
C10_Witness ==
  /\ ret.op = "StringArray" /\ ret.err.kind = "DSSError#"
  /\ ret.blk = Blocks
  /\ \A b \in Blocks : heap[b] = 1

\* the operations that hand native strings to the engine
OutboundOps == {"Set_BusNames", "Set_Bus1"}

\* C11: outbound native strings are scoped. After a setter or action taking
\* a string or a string array, every native block allocated for the call was
\* allocated and not yet freed during the engine call and has been freed
\* exactly once, whether or not the engine reported an error; nothing else
\* was freed
C11_OutboundScoped ==
  ret.op \in OutboundOps =>
    /\ \A b \in ret.blk : ret.val[1][b] = 0 /\ cmem[b] = 1
    /\ \A b \in Blocks \ ret.blk : cmem[b] = -1

\* C12: string array round trip. A Get_BusNames that follows a Set_BusNames
\* of xs (both without error) returns xs, and no native block allocated for
\* xs or for the result is still live
C12_RoundTrip ==
  [][(/\ ret.op = "Set_BusNames" /\ ret.err = NoError
      /\ ret'.op = "StringArray" /\ ret'.f = ret.f /\ ret'.err = NoError)
       => /\ ret'.val = ret.raw
          /\ \A b \in Blocks : cmem'[b] # 0 /\ heap'[b] # 0]_vars

\* the context handle of the facade of the last operation
RetHandle == ctx[ret.f].ctxPtr

\* what AllNames() returns for the Lines of instance h
NamesOf(h) ==
  LET names == GetStringArray(AllLineNames(h), <<Count(h), 0, 0, 0>>)
  IN  {names[i] : i \in 1..Len(names)}

ToVisit(h) ==
  IF circuit[h] = 0 THEN {}
  ELSE IF iterateDisabled[h] = 1 THEN 1..NumEntities ELSE enabled[h]

\* C14: enumeration completeness. First() and then Next() until 0 is
\* returned terminates; it visits each Line at most once; with all Lines
\* enabled it visits Count() of them; with IterateDisabled 0 it visits the
\* enabled Lines and only them, with IterateDisabled 1 the disabled ones too
C14_Enumeration ==
  /\ [](epc = "done" =>
          LET h == ProxyCtxPtr(1)
          IN  /\ \A i, j \in 1..Len(visited) : i # j => visited[i] # visited[j]
              /\ {visited[i] : i \in 1..Len(visited)} = ToVisit(h)
              /\ enabled[h] = 1..NumEntities => Len(visited) = Count(h)
              /\ iterateDisabled[h] = 1 => Len(visited) = Count(h)
              /\ (iterateDisabled[h] = 0 /\ circuit[h] # 0) =>
                    Len(visited) = Cardinality(enabled[h]))
  /\ (epc = "first" ~> epc = "done")

\* C14 witness: with IterateDisabled 0 and a disabled Line, the enumeration
\* has ended having visited the enabled Lines, fewer than Count()
C14_Witness ==
  /\ epc = "done" /\ circuit[Prime] # 0 /\ iterateDisabled[Prime] = 0
  /\ enabled[Prime] # 1..NumEntities /\ enabled[Prime] # {}
  /\ Len(visited) = Cardinality(enabled[Prime])
  /\ Len(visited) < Count(Prime)

\* C15: indices are 1-based and 0 means none. First() returns 0 exactly when
\* there is no Line to iterate; Next() returns 0 when none is left and
\* otherwise the index of the Line it activated; Get_idx() returns the active
\* index, in 1..Count() when a Line is active; Set_idx(i) with i in
\* 1..Count() returns no error and makes i the active index; Set_idx(i) with
\* another i returns an error
C15_OneBased ==
  LET h == RetHandle
  IN  /\ ret.op = "Lines.First" => (ret.val[1] = 0 <=> ToVisit(h) = {})
      /\ ret.op = "Lines.Next" =>
            IF ret.val[1] = 0 THEN {i \in ToVisit(h) : i > active[h]} = {}
            ELSE ret.val[1] = active[h] /\ ret.val[1] \in ToVisit(h)
      /\ (ret.op = "Lines.Get_idx" /\ ret.err = NoError) =>
            /\ ret.val[1] = active[h]
            /\ active[h] # 0 => ret.val[1] \in 1..Count(h)
      /\ (ret.op = "Lines.Set_idx" /\ ret.raw \in 1..Count(h)) =>
            ret.err = NoError /\ active[h] = ret.raw
      /\ (ret.op = "Lines.Set_idx" /\ ret.raw \notin 1..Count(h)) =>
            ret.err.kind = "DSSError#"
      /\ \A k \in Handles : active[k] \in 0..Count(k)

\* C15 witness: with a Line active, Set_idx(Count() + 1) returned an error
\* and the active index is the one from before
C15_Witness ==
  /\ ret.op = "Lines.Set_idx" /\ Count(RetHandle) > 0
  /\ ret.raw = Count(RetHandle) + 1
  /\ ret.err.kind = "DSSError#" /\ active[RetHandle] \in 1..Count(RetHandle)

OwnData(t) == thr[t].res = thr[t].prod /\ thr[t].cnt = Len(thr[t].prod)
OwnError(t) ==
  thr[t].err = IF thr[t].raised = 0 THEN NoError
               ELSE EngineError(thr[t].raised, 10 + thr[t].raised)
OwnSelection(t) == (thr[t].sel > 0 /\ thr[t].read >= 0) => thr[t].read = thr[t].sel

\* C17: two goroutines, one on the facade of Init(nil) and one on a facade
\* that NewContext returned: each array getter returns the data its own
\* engine call produced and the error its own call raised
C17_Independent ==
  (/\ \A t \in Threads : thr[t].pc = "done"
   /\ thr[1].f # thr[2].f)
    => \A t \in Threads : OwnData(t) /\ OwnError(t)

\* C18: one context has no internal locking.  Whatever the other goroutine
\* is in the middle of on the same context, a goroutine that has not
\* finished can take its next step; the witness is the interleaving in which
\* a getter returns the other goroutine's data and error and a property read
\* acts on the other goroutine's selection
C18_NoLocking ==
  \A t \in Threads : thr[t].pc \notin {"idle", "done"} => ENABLED T_Step(t)

\* C18 witness: both goroutines ran on the facade of Init(nil); the getter of
\* the first returned data its call did not produce and an error its call
\* did not raise (or lost the one it raised), and its Get_idx returned an
\* index it did not select
C18_Witness ==
  /\ thr[1].f = thr[2].f
  /\ \A t \in Threads : thr[t].pc = "done"
  /\ ~OwnData(1) /\ thr[1].res = thr[2].prod
  /\ ~OwnError(1)
  /\ ~OwnSelection(1) /\ thr[1].read = thr[2].sel

\* the proxies Init has reached so far
Initialised == {ini.proxies[i].path : i \in 1..Len(ini.proxies)}

\* C19: Init(nil) binds the facade to the prime instance and starts it,
\* Init(handle) binds it to that handle; the error-cell pointer and the
\* scratch-buffer pointers are set before any proxy is initialised; after
\* Init every proxy, nested ones included, holds the handle of the facade and
\* the one DSSContextPtrs of the facade
C19_Init ==
  /\ Initialised # {} =>
       /\ ini.cobj.errorNumberPtr # Null /\ ini.cobj.grPtr # Null
       /\ ini.cobj = DSSContextPtrs_Init(ini.dss.ctxPtr)
  /\ ini.pc = Done =>
       /\ ini.dss.ctxPtr = IF ini.arg = Null THEN Prime ELSE ini.arg
       /\ ini.arg = Null => Prime \in ini.started
       /\ ini.dss.ctx = ini.id
       /\ Initialised = ProxyPaths
       /\ \A i \in 1..Len(ini.proxies) :
            ini.proxies[i].common = [ctx |-> ini.dss.ctx, ctxPtr |-> ini.dss.ctxPtr]

\* C19 witness: an Init(nil) and an Init of a handle other than the prime one
\* have completed, down to the Properties proxy of Circuits.ActiveDSSElement
C19_Witness ==
  /\ ini.pc = Done /\ ini.id = MaxFacades /\ ini.arg \notin {Null, Prime}
  /\ \E i \in 1..Len(ini.proxies) :
       /\ ini.proxies[i].path = <<"Circuits", "ActiveDSSElement", "Properties">>
       /\ ini.proxies[i].common = [ctx |-> ini.id, ctxPtr |-> ini.arg]
  /\ ini.proxies[Len(ini.proxies)].path = <<"ZIP">>

\* the value Get_CompatFlags would return through facade f
FlagsThrough(f) == compatFlags[FlagsCell(ProxyCtxPtr(f))]

\* C20: the compatibility flags are global to the process.  Once
\* Set_CompatFlags(v) has returned no error through some context, the flags
\* read through every context are v and a Get_CompatFlags through any
\* context returns v, until a Set_CompatFlags through some context changes
\* them
C20_GlobalFlags ==
  /\ []((ret.op = "Set_CompatFlags" /\ ret.err = NoError) =>
          \A f \in facades : FlagsThrough(f) = ret.raw)
  /\ [](ret.op = "Get_CompatFlags" => \A f \in facades : ret.val = <<FlagsThrough(f)>>)
  /\ [][(ret.op = "Set_CompatFlags" /\ ret.err = NoError /\ ret'.op = "Get_CompatFlags")
          => ret'.val = <<ret.raw>>]_vars
  /\ [][(\E f \in facades : FlagsThrough(f)' # FlagsThrough(f))
          => ret'.op = "Set_CompatFlags"]_vars

\* C20 witness: the flags, set to 0x4 through some context, were read through
\* a context of NewContext on a handle of its own
C20_Witness ==
  /\ ret.op = "Get_CompatFlags" /\ ret.f # 1 /\ RetHandle # Prime
  /\ ret.val = <<4>>

\* C21: IError.Number returns the number the cell of its context holds, leaves
\* the cell at zero and returns a nil error; right after an operation on the
\* same context that returned an engine error it returns 0
C21_ErrorNumber ==
  [][\A f \in Facades :
       (ret' # ret /\ ret'.op = "Error.Number" /\ ret'.f = f) =>
         /\ ret'.val = <<errNum[ctx[f].errorNumberPtr]>>
         /\ errNum'[ctx[f].errorNumberPtr] = 0
         /\ ret'.err = NoError
         /\ (/\ ret.op \notin {"none", "NewContext"}
             /\ ProxyCtxPtr(ret.f) = ProxyCtxPtr(f)
             /\ ret.err.kind = "DSSError#") => ret'.val = <<0>>]_vars

\* C21 witness: Number returned a nonzero number that an unchecked engine
\* call had left in the cell, with a nil error, and the cell is zero
C21_Witness ==
  /\ ret.op = "Error.Number" /\ ret.val # <<0>> /\ ret.err = NoError /\ RetCell = 0

\* C22: the block PrepareStringArray allocates has room for one pointer per
\* element: every slot written for the argument, and read again by the engine
\* and by FreeStringArray, lies inside the block
C22_SlotsInside ==
  ret.op = "Set_BusNames" =>
    \A i \in 1..Len(ret.raw) : SlotInside(i, PrepareStringArray(ret.raw).size)

\* C23: copy-out precedes the next engine call: between the engine call that
\* fills the scratch buffer and the completion of the copy, the getter issues
\* no engine call on its context
C23_CopyOutFirst ==
  [][\A t \in Threads :
       (thr[t].pc \in BeforeCopyOut /\ thr'[t] # thr[t])
         => EngineCallAt(thr[t].pc) = "none"]_vars

\* the operations of the Lines interface that select a Line
LineSelections == {"Lines.Set_Name", "Lines.Set_idx", "Lines.First", "Lines.Next"}

\* the last operation was a selection of the Lines interface that succeeded
\* and landed on a Line
LineLanded ==
  /\ ret.op \in LineSelections
  /\ ret.err = NoError
  /\ ret.op \in {"Lines.First", "Lines.Next"} => ret.val # <<0>>

C25_DisposalTerminal ==
  /\ [](released[Prime] = 0)
  /\ [][ret'.op = "Dispose" /\ ret' # ret =>
          /\ ret.op = "NewContext"
          /\ ret.raw # Null
          /\ ret'.raw = ret.raw
          /\ released[ret'.raw] = 0]_vars
  /\ [][ret'.op = "NewContext" /\ ret' # ret =>
          released[ProxyCtxPtr(ret'.f)] = 0]_vars

\* C26: after Circuit.Get_Buses(idx), a proxy that is not nil is the
\* circuit's ActiveBus proxy and the active bus is the one of zero-based
\* index idx; the proxy is nil exactly when the engine rejected the index;
\* and a nil proxy comes with an error that is not nil
C26_GetBuses ==
  ret.op = "Get_Buses" =>
    LET h   == ProxyCtxPtr(ret.f)
        idx == ret.raw[1]
    IN  /\ ret.val \in {<<"nil">>, <<"ActiveBus">>}
        /\ ret.val = <<"ActiveBus">> => activeBus[h] = idx + 1 /\ idx + 1 \in Buses(h)
        /\ ret.val = <<"nil">> <=> idx + 1 \notin Buses(h)
        /\ ret.val = <<"nil">> => ret.err # NoError

\* C27: a NewContext to which the engine returned a null handle returns the
\* allocation error together with a facade bound to the prime instance
\* (handle, error cell and scratch buffers), creates no instance and touches
\* no error cell but the prime one (which the second start may set); and
\* every operation issued on a facade bound in this way acts on the prime
\* instance: it changes no circuit, active entity or error cell of another
\* instance, a command that succeeded has given the prime instance its
\* circuit, a Set_idx that succeeded its active entity, and Name reads the
\* circuit of the prime instance
C27_NullHandleIsPrime ==
  /\ [][(ret'.op = "NewContext" /\ ret' # ret /\ ret'.raw = Null) =>
          /\ ret'.err = AllocError
          /\ ret'.val[1] \in facades' \ facades
          /\ ctx'[ret'.val[1]] = DSSContextPtrs_Init(Prime)
          /\ created' = created
          /\ \A h \in Handles \ {Prime} : errNum'[h] = errNum[h]]_vars
  /\ [][(ret' # ret /\ ret'.op # "NewContext" /\ ret'.f # 1 /\ created = {}) =>
          /\ \A h \in Handles \ {Prime} :
               circuit'[h] = circuit[h] /\ active'[h] = active[h] /\ errNum'[h] = errNum[h]
          /\ (ret'.op = "Set_Command" /\ ret'.err = NoError) => circuit'[Prime] # 0
          /\ (ret'.op = "Set_idx" /\ ret'.err = NoError) => active'[Prime] # 0
          /\ (ret'.op = "Name" /\ ret'.err = NoError) => ret'.val = <<circuit[Prime]>>]_vars

\* a command issued through the facade returned with the allocation error
\* (no instance was ever created) has built the circuit of the prime instance
C27_Witness ==
  /\ created = {}
  /\ ret.op = "Set_Command" /\ ret.f # 1 /\ ret.err = NoError
  /\ ProxyCtxPtr(ret.f) = Prime
  /\ circuit[Prime] # 0

\* the last operation was a proxy operation, which ends with the check
ProxyOp == ret.op \notin {"none", "Init", "NewContext", "Dispose"}

\* C28: facades initialised with Init(nil) are bound to the same prime
\* instance. Every such facade has the handle, the error cell and the
\* buffers of the prime instance; the entity selected and the circuit built
\* through one facade are what a getter through another returns; a fault
\* raised through one (by the unchecked starts of its Init) is reported by
\* the next operation through another; and once an operation of either
\* facade has checked the error, the cell is zero for both
C28_SharedPrime ==
  /\ [](\A f \in facades : ctx[f] = DSSContextPtrs_Init(Prime))
  /\ [](ProxyOp => \A f \in facades : errNum[ctx[f].errorNumberPtr] = 0)
  /\ [][(ret' # ret /\ ret'.f # ret.f /\ ret.err = NoError /\ ret'.err = NoError) =>
          /\ (ret.op = "Set_Command" /\ ret'.op = "Name") =>
               ret'.val = <<circuit[Prime]>> /\ circuit[Prime] # 0
          /\ (ret.op = "Set_idx" /\ ret'.op = "Get_idx") =>
               ret'.val = <<active[Prime]>> /\ active[Prime] # 0]_vars
  /\ [][(ret' # ret /\ ret'.f # ret.f /\ ret.op = "Init" /\ errNum[Prime] # 0) =>
          /\ ret'.op = "Init" \/ ret'.err # NoError \/ ret'.op = "Error.Number"
          /\ ret'.op = "Error.Number" => ret'.val = <<errNum[Prime]>>]_vars
  /\ [][(ret' # ret /\ ret'.f # ret.f /\ ret.err # NoError /\ ret'.op = "Error.Number") =>
          ret'.val = <<0>>]_vars

\* a second facade made by Init(nil) has read, without error, the entity that
\* was selected in the prime instance
C28_Witness ==
  /\ created = {}
  /\ Cardinality(facades) = 2
  /\ ret.op = "Get_idx" /\ ret.f = 2 /\ ret.err = NoError
  /\ ret.val = <<active[Prime]>> /\ active[Prime] # 0

\* C29: an engine error a proxy operation returns was raised during the
\* engine call of that operation. An operation whose engine call raised
\* nothing returns no engine error: a Set_idx that moved the selection, a
\* Get_idx that returned an index other than 0, an Error.Number
C29_Attribution ==
  [][ret' # ret =>
       /\ (ret'.op = "Set_idx" /\ active' # active) => ret'.err = NoError
       /\ (ret'.op = "Get_idx" /\ ret'.val # <<0>>) => ret'.err = NoError
       /\ ret'.op = "Error.Number" => ret'.err = NoError]_vars

\* C30: a numeric array setter accepts every input sequence, the empty one
\* included: it returns normally, with nil or the engine's error, after an
\* engine call that was given the length of the sequence as element count
C30_EmptyAccepted ==
  ret.op = "Set_States" =>
    /\ ret.err.kind \in {"nil", "DSSError#"}
    /\ ret.raw.called

====
